---- MODULE Spec2Model ----
(***************************************************************************)
(* The host-link command protocol of the PiKVM HID bridge firmware         *)
(* (hid/src/main.cpp): the serial framer of loop(), the command dispatcher *)
(* _handleRequest, the response builder _sendResponse and the outputs      *)
(* record kept in non-volatile storage.                                    *)
(***************************************************************************)
EXTENDS Integers, Sequences, FiniteSets, TLC

(***************************************************************************)
(* uint8_t / uint16_t arithmetic.                                          *)
(***************************************************************************)
Byte == 0..255

RECURSIVE BitAnd(_, _)
BitAnd(a, b) ==
    IF a = 0 \/ b = 0 THEN 0
    ELSE (a % 2) * (b % 2) + 2 * BitAnd(a \div 2, b \div 2)

RECURSIVE BitOr(_, _)
BitOr(a, b) ==
    IF a = 0 THEN b
    ELSE IF b = 0 THEN a
    ELSE (IF a % 2 = 1 \/ b % 2 = 1 THEN 1 ELSE 0) + 2 * BitOr(a \div 2, b \div 2)

RECURSIVE BitXor(_, _)
BitXor(a, b) ==
    IF a = 0 THEN b
    ELSE IF b = 0 THEN a
    ELSE ((a + b) % 2) + 2 * BitXor(a \div 2, b \div 2)

\* a ^ b on bytes, tabulated once from BitXor.
XorTable == [a \in Byte |-> [b \in Byte |-> BitXor(a, b)]]

\* a ^ b on uint16_t values.
Xor16(a, b) ==
    XorTable[a \div 256][b \div 256] * 256 + XorTable[a % 256][b % 256]

\* ~x of a uint8_t promoted to int, as far as the low 8 bits go.
BitNot8(x) == 255 - x

(***************************************************************************)
(* proto.h / proto.cpp                                                     *)
(***************************************************************************)
MAGIC == 51
MAGIC_RESP == 52

RESP_NONE == 0
RESP_CRC_ERROR == 64
RESP_INVALID_ERROR == 69
RESP_TIMEOUT_ERROR == 72

PONG_OK == 128
PONG_CAPS == 1
PONG_SCROLL == 2
PONG_NUM == 4
PONG_KEYBOARD_OFFLINE == 8
PONG_MOUSE_OFFLINE == 16
PONG_RESET_REQUIRED == 64

OUTPUTS1_DYNAMIC == 128
OUTPUTS1_KEYBOARD_MASK == 7
OUTPUTS1_KEYBOARD_USB == 1
OUTPUTS1_KEYBOARD_PS2 == 2
OUTPUTS1_MOUSE_MASK == 56
OUTPUTS1_MOUSE_USB_ABS == 8
OUTPUTS1_MOUSE_USB_REL == 16
OUTPUTS1_MOUSE_PS2 == 24
OUTPUTS1_MOUSE_USB_WIN98 == 32

OUTPUTS2_CONNECTABLE == 64
OUTPUTS2_CONNECTED == 128
OUTPUTS2_HAS_USB == 1
OUTPUTS2_HAS_PS2 == 2
OUTPUTS2_HAS_USB_WIN98 == 4

CMD_PING == 1
CMD_REPEAT == 2
CMD_SET_KEYBOARD == 3
CMD_SET_MOUSE == 4
CMD_SET_CONNECTED == 5
CMD_CLEAR_HID == 16
CMD_KEYBOARD_KEY == 17
CMD_MOUSE_BUTTON == 18
CMD_MOUSE_MOVE == 19
CMD_MOUSE_RELATIVE == 20
CMD_MOUSE_WHEEL == 21

polinom == 40961
crc_init == 65535

\* An inner loop that never applies the polynomial.
RECURSIVE crc16_bits_shift_only(_, _)
crc16_bits_shift_only(crc, bit_count) ==
    IF bit_count = 0 THEN crc
    ELSE crc16_bits_shift_only(crc \div 2, bit_count - 1)

\* The inner loop of crc16: bit_count steps still to do on crc.
RECURSIVE crc16_bits(_, _)
crc16_bits(crc, bit_count) ==
    IF bit_count = 0 THEN crc
    ELSE IF crc % 2 = 0
         THEN crc16_bits(crc \div 2, bit_count - 1)
         ELSE crc16_bits(Xor16(crc \div 2, polinom), bit_count - 1)

\* The outer loop of crc16 from byte_count (1-based here) on.
RECURSIVE crc16_from(_, _, _, _)
crc16_from(crc, bytes, byte_count, length) ==
    IF byte_count > length THEN crc
    ELSE crc16_from(crc16_bits(Xor16(crc, bytes[byte_count]), 8),
                    bytes, byte_count + 1, length)

crc16(bytes, length) == crc16_from(crc_init, bytes, 1, length)

split16(from) == <<(from \div 256) % 256, from % 256>>

merge8(from_a, from_b) == from_a * 256 + from_b

\* merge8_int: the two bytes as a signed 16-bit value.
merge8_int(from_a, from_b) ==
    IF merge8(from_a, from_b) >= 32768
    THEN merge8(from_a, from_b) - 65536
    ELSE merge8(from_a, from_b)

(***************************************************************************)
(* Bounds of the model.                                                    *)
(***************************************************************************)
\* CMD_SERIAL_TIMEOUT in ticks of the model's clock.
TimeoutTicks == 1
\* Length of the truncated frames the host may send.
PartialLen == 3
\* Number of bytes ph_ps2_kbd.qbytes holds (set in ph_ps2_phy_init).
QueueCap == 3
KeysQueueCap == 8

(***************************************************************************)
(* The builds: each is one setting of the preprocessor symbols of main.cpp *)
(* and factory.cpp.  CMD_SPI = FALSE is a CMD_SERIAL build.                *)
(***************************************************************************)
NoFlags ==
    [HID_DYNAMIC |-> FALSE, HID_WITH_USB |-> FALSE, HID_WITH_PS2 |-> FALSE,
     HID_WITH_USB_WIN98 |-> FALSE, AUM |-> FALSE,
     HID_SET_USB_KBD |-> FALSE, HID_SET_PS2_KBD |-> FALSE,
     HID_SET_USB_MOUSE_ABS |-> FALSE, HID_SET_USB_MOUSE_REL |-> FALSE,
     HID_SET_PS2_MOUSE |-> FALSE, HID_SET_USB_MOUSE_WIN98 |-> FALSE,
     CMD_SPI |-> FALSE]

Builds ==
    { [NoFlags EXCEPT !.HID_DYNAMIC = TRUE, !.HID_WITH_USB = TRUE,
                      !.HID_SET_USB_KBD = TRUE, !.HID_SET_USB_MOUSE_ABS = TRUE],
      [NoFlags EXCEPT !.HID_WITH_USB = TRUE, !.HID_WITH_PS2 = TRUE, !.AUM = TRUE,
                      !.HID_SET_PS2_KBD = TRUE, !.HID_SET_USB_MOUSE_REL = TRUE],
      [NoFlags EXCEPT !.CMD_SPI = TRUE, !.HID_WITH_USB = TRUE,
                      !.HID_SET_USB_MOUSE_ABS = TRUE] }

(***************************************************************************)
(* State.                                                                  *)
(***************************************************************************)
VARIABLES
    build,           \* the preprocessor symbols this firmware was built with
    pc,              \* "boot": setup() not yet run; "loop": in loop()
    nv,              \* the 8 bytes at offset 0 of the non-volatile storage
    kbd_type,        \* _kbd->getType(), "null" while _kbd == nullptr
    mouse_type,      \* _mouse->getType(), "null" while _mouse == nullptr
    kbd_pressed,     \* keys the UsbKeyboard holds pressed
    usb_leds,        \* _keyboard.getLEDs(): the LED report of the target
    usb_configured,  \* USBComposite: the target has configured the device
    aum_connected,   \* aumIsUsbConnected()
    reset_required,  \* _reset_required
    prev_code,       \* prev_code of _sendResponse
    buffer,          \* buffer[0..index-1] of loop(); index is its length
    elapsed,         \* ticks since `last` of loop() was set, capped
    rx,              \* bytes received by CMD_SERIAL and not yet read
    served,          \* the request this step handed to _handleRequest, or <<>>
    tx,              \* the 8 bytes this step wrote to CMD_SERIAL, or <<>>
    calls,           \* the driver methods this step called, in order
    last_code,       \* class of the last response with a non-zero byte 1
    ping_resp,       \* the response to a good PING, kept while the request
                     \* that follows it is a REPEAT
    set_seen,        \* a good SET_KEYBOARD or SET_MOUSE was served since boot
    boot_nv,         \* the storage setup() found, in the step of setup() only
    _spi_in,         \* _spi_in[0.._spi_in_index-1]; the index is its length
    _spi_out,        \* _spi_out[8]
    _spi_out_index,  \* _spi_out_index
    receiving,       \* the static `receiving` of the SPI interrupt routine
    spi_data,        \* the response last passed to spiWrite
    spi_step,        \* stores spiWrite has done; 8 when main is not in spiWrite
    spi_open,        \* the request that is complete and not yet dispatched
    isr,             \* what the interrupt routine did in this step, or <<>>
    crc_frame,       \* a payload, then the frame a sender makes of it
    crc_flip,        \* the bit of crc_frame damaged on the wire, or -1
    twin,            \* two runs of the firmware: for each its handler state,
                     \* prev_code and the USB state its target shows
    twin_resp,       \* the response of each run to the request of this step
    twin_pc,         \* "boot" before setup() of the two runs, then "loop"
    PH_O_IS_KBD_PS2, \* the outputs select the PS/2 keyboard (pico firmware)
    ps2_pc,          \* "boot" before ph_ps2_init(), then "run"
    ph_g_ps2_kbd_leds, \* ph_g_ps2_kbd_leds
    queue_cap,       \* the number of bytes the keyboard queue can hold
    qbytes,          \* ph_ps2_kbd.qbytes, the device-to-host queue
    ps2_down,        \* the keys whose make code was queued and whose break
                     \* code was not queued since
    ps2_op,          \* the call of this step and its arguments, or <<>>
    ps2_sent         \* the bytes this step passed to ph_ps2_kbd_send, in order

mainvars == <<build, pc, nv, kbd_type, mouse_type, kbd_pressed, usb_leds,
          usb_configured, aum_connected, reset_required, prev_code, buffer,
          elapsed, rx, served, tx, calls, last_code, ping_resp, set_seen,
          boot_nv, _spi_in, _spi_out, _spi_out_index, receiving, spi_data,
          spi_step, spi_open, isr>>

\* The frame on the wire of the CRC checks.
crcvars == <<crc_frame, crc_flip>>

\* The two runs compared with each other.
twinvars == <<twin, twin_resp, twin_pc>>

\* The PS/2 keyboard of the pico firmware.
ps2vars == <<PH_O_IS_KBD_PS2, ps2_pc, ph_g_ps2_kbd_leds, queue_cap, qbytes, ps2_down,
             ps2_op, ps2_sent>>

\* What the steps of the firmware leave alone.
others == <<crcvars, twinvars, ps2vars>>

\* What the steps on the frame of the CRC checks leave alone.
crc_rest == <<mainvars, twinvars, ps2vars>>

\* What the steps of the two runs leave alone.
twin_rest == <<mainvars, crcvars, ps2vars>>

\* What the steps of the PS/2 keyboard leave alone.
ps2_rest == <<mainvars, crcvars, twinvars>>

vars == <<mainvars, others>>

\* The state of the SPI framer.
spivars == <<_spi_in, _spi_out, _spi_out_index, receiving, spi_data, spi_step,
             spi_open>>

\* _spi_in_index: bytes of _spi_in at the index and beyond are stored again
\* before spiGet() is read, so _spi_in holds the bytes below the index only.
_spi_in_index == Len(_spi_in)

\* index of loop(): bytes of buffer at index and beyond are never read
\* before they are stored again, so buffer holds the bytes below index only.
index == Len(buffer)

(***************************************************************************)
(* Non-volatile storage: Storage::readBlock / updateBlock at offset 0.     *)
(***************************************************************************)
readBlock(storage) == storage

updateBlock(storage, data) == data

\* A _readOutputs that compares the magic and not the CRC.
_readOutputs_magic_only(storage) ==
    LET data == readBlock(storage)
    IN  IF data[1] # MAGIC THEN -1 ELSE data[2]

\* _readOutputs: -1 or the outputs byte of the stored record.
_readOutputs(storage) ==
    LET data == readBlock(storage)
    IN  IF data[1] # MAGIC \/ crc16(data, 6) # merge8(data[7], data[8])
        THEN -1
        ELSE data[2]

\* _writeOutputs: the storage after the call.
_writeOutputs(storage, mask, outputs, force) ==
    LET read == IF force THEN 0 ELSE _readOutputs(storage)
        old  == IF read < 0 THEN 0 ELSE read
        head == <<MAGIC, BitOr(BitAnd(old, BitNot8(mask)), outputs), 0, 0, 0, 0>>
        data == head \o split16(crc16(head, 6))
    IN  updateBlock(storage, data)

(***************************************************************************)
(* Drivers and their factory.                                              *)
(***************************************************************************)
\* Factory::makeKeyboard: the kind of the object it returns.
makeKeyboard(b, type) ==
    IF b.HID_WITH_USB /\ type = "USB_KEYBOARD" THEN "USB_KEYBOARD" ELSE "DUMMY"

\* Factory::makeMouse: the kind of the object it returns.
makeMouse(b, type) ==
    IF b.HID_WITH_USB /\ type \in {"USB_MOUSE_ABSOLUTE", "USB_MOUSE_RELATIVE"}
    THEN type
    ELSE "DUMMY"

KEY_ERROR_UNDEFINED == 3

\* keymapUsb: the USB usage of a key code, KEY_ERROR_UNDEFINED if it has none.
keymapUsb(code) == IF code \in 1..76 THEN code + 3 ELSE KEY_ERROR_UNDEFINED

\* UsbKeyboard::sendKey: the keys held pressed after the call.
UsbKeyboard_sendKey(pressed, code, state) ==
    LET usb_code == IF code \in 77..84 THEN code ELSE keymapUsb(code)
    IN  IF code \notin 77..84 /\ usb_code = KEY_ERROR_UNDEFINED THEN pressed
        ELSE IF state THEN pressed \cup {code}
        ELSE pressed \ {code}

\* Keyboard::sendKey of the object of kind type.
Keyboard_sendKey(type, pressed, code, state) ==
    IF type = "USB_KEYBOARD" THEN UsbKeyboard_sendKey(pressed, code, state)
    ELSE pressed

\* Keyboard::clear of the object of kind type (UsbKeyboard: releaseAll).
Keyboard_clear(type, pressed) ==
    IF type = "USB_KEYBOARD" THEN {} ELSE pressed

\* Keyboard::isOffline
Keyboard_isOffline(type, configured) ==
    IF type = "USB_KEYBOARD" THEN ~configured ELSE FALSE

\* Mouse::isOffline
Mouse_isOffline(type, configured) ==
    IF type \in {"USB_MOUSE_ABSOLUTE", "USB_MOUSE_RELATIVE"} THEN ~configured
    ELSE FALSE

\* Keyboard::getLeds
Keyboard_getLeds(type, leds) ==
    IF type = "USB_KEYBOARD"
    THEN [caps |-> BitAnd(leds, 2) # 0, scroll |-> BitAnd(leds, 4) # 0,
          num |-> BitAnd(leds, 1) # 0]
    ELSE [caps |-> FALSE, scroll |-> FALSE, num |-> FALSE]

(***************************************************************************)
(* setup()                                                                 *)
(***************************************************************************)
\* The compile-time defaults of _initOutputs.
DefaultOutputs(b) ==
    LET k == IF b.HID_WITH_USB /\ b.HID_SET_USB_KBD THEN OUTPUTS1_KEYBOARD_USB
             ELSE IF b.HID_WITH_PS2 /\ b.HID_SET_PS2_KBD THEN OUTPUTS1_KEYBOARD_PS2
             ELSE 0
        m == IF b.HID_WITH_USB /\ b.HID_SET_USB_MOUSE_ABS THEN OUTPUTS1_MOUSE_USB_ABS
             ELSE IF b.HID_WITH_USB /\ b.HID_SET_USB_MOUSE_REL THEN OUTPUTS1_MOUSE_USB_REL
             ELSE IF b.HID_WITH_PS2 /\ b.HID_SET_PS2_MOUSE THEN OUTPUTS1_MOUSE_PS2
             ELSE IF b.HID_WITH_USB /\ b.HID_WITH_USB_WIN98 /\ b.HID_SET_USB_MOUSE_WIN98
                  THEN OUTPUTS1_MOUSE_USB_WIN98
             ELSE 0
    IN  BitOr(k, m)

\* The kind _initOutputs asks the factory for, by the keyboard bits.
KeyboardKindOf(outputs) ==
    LET kbd == BitAnd(outputs, OUTPUTS1_KEYBOARD_MASK)
    IN  IF kbd = OUTPUTS1_KEYBOARD_USB THEN "USB_KEYBOARD"
        ELSE IF kbd = OUTPUTS1_KEYBOARD_PS2 THEN "PS2_KEYBOARD"
        ELSE "DUMMY"

\* The kind _initOutputs asks the factory for, by the mouse bits.
MouseKindOf(outputs) ==
    LET mouse == BitAnd(outputs, OUTPUTS1_MOUSE_MASK)
    IN  IF mouse = OUTPUTS1_MOUSE_USB_ABS THEN "USB_MOUSE_ABSOLUTE"
        ELSE IF mouse = OUTPUTS1_MOUSE_USB_WIN98 THEN "USB_MOUSE_ABSOLUTE_WIN98"
        ELSE IF mouse = OUTPUTS1_MOUSE_USB_REL THEN "USB_MOUSE_RELATIVE"
        ELSE "DUMMY"

\* _initOutputs: the outputs byte it selects, the storage it leaves and the
\* kinds of the two drivers it creates.
_initOutputs(b, storage) ==
    LET read    == IF b.HID_DYNAMIC THEN _readOutputs(storage) ELSE -1
        outputs == IF read < 0 THEN DefaultOutputs(b) ELSE read
        stored  == IF b.HID_DYNAMIC /\ read < 0
                   THEN _writeOutputs(storage, 255, outputs, TRUE)
                   ELSE storage
    IN  [outputs |-> outputs,
         nv      |-> stored,
         kbd     |-> makeKeyboard(b, KeyboardKindOf(outputs)),
         mouse   |-> makeMouse(b, MouseKindOf(outputs))]

(***************************************************************************)
(* The command handlers.  st is the state a handler can touch: the storage *)
(* nv, _reset_required, the kinds kbd and mouse of the objects _kbd and    *)
(* _mouse point to, the keys pressed, the AUM connected flag, and calls,   *)
(* the driver methods called so far.  data is the 8-byte request, so that  *)
(* data[3] is the handler's data[0].                                       *)
(***************************************************************************)
\* A SET_KEYBOARD that also swaps the keyboard driver at once.
_cmdSetKeyboard_hotswap(b, st, data) ==
    IF b.HID_DYNAMIC
    THEN [st EXCEPT !.nv = _writeOutputs(st.nv, OUTPUTS1_KEYBOARD_MASK, data[3], FALSE),
                    !.reset_required = TRUE,
                    !.kbd = makeKeyboard(b, KeyboardKindOf(data[3]))]
    ELSE st

_cmdSetKeyboard(b, st, data) ==
    IF b.HID_DYNAMIC
    THEN [st EXCEPT !.nv = _writeOutputs(st.nv, OUTPUTS1_KEYBOARD_MASK, data[3], FALSE),
                    !.reset_required = TRUE]
    ELSE st

\* A SET_MOUSE that stores the selection and leaves _reset_required alone.
_cmdSetMouse_no_flag(b, st, data) ==
    IF b.HID_DYNAMIC
    THEN [st EXCEPT !.nv = _writeOutputs(st.nv, OUTPUTS1_MOUSE_MASK, data[3], FALSE)]
    ELSE st

_cmdSetMouse(b, st, data) ==
    IF b.HID_DYNAMIC
    THEN [st EXCEPT !.nv = _writeOutputs(st.nv, OUTPUTS1_MOUSE_MASK, data[3], FALSE),
                    !.reset_required = TRUE]
    ELSE st

_cmdSetConnected(b, st, data) ==
    IF b.AUM THEN [st EXCEPT !.connected = (data[3] # 0)] ELSE st

_cmdClearHid(st) ==
    [st EXCEPT !.pressed = Keyboard_clear(st.kbd, st.pressed),
               !.calls = st.calls \o << <<"kbd.clear">>, <<"mouse.clear">> >>]

_cmdKeyEvent(st, data) ==
    [st EXCEPT !.pressed = Keyboard_sendKey(st.kbd, st.pressed, data[3], data[4] # 0),
               !.calls = Append(st.calls, <<"kbd.sendKey", data[3], data[4] # 0>>)]

\* The five (select, state) pairs are passed as the two payload bytes that
\* hold them.
_cmdMouseButtonEvent(st, data) ==
    [st EXCEPT !.calls = Append(st.calls, <<"mouse.sendButtons", data[3], data[4]>>)]

_cmdMouseMoveEvent(st, data) ==
    [st EXCEPT !.calls = Append(st.calls,
        <<"mouse.sendMove", merge8_int(data[3], data[4]), merge8_int(data[5], data[6])>>)]

_cmdMouseRelativeEvent(st, data) ==
    [st EXCEPT !.calls = Append(st.calls, <<"mouse.sendRelative", data[3], data[4]>>)]

_cmdMouseWheelEvent(st, data) ==
    [st EXCEPT !.calls = Append(st.calls, <<"mouse.sendWheel", data[4]>>)]

\* The switch of _handleRequest on the opcode data[1] (data[2] here).
Dispatch(b, st, data) ==
    CASE data[2] = CMD_PING           -> [code |-> PONG_OK, st |-> st]
      [] data[2] = CMD_SET_KEYBOARD   -> [code |-> PONG_OK, st |-> _cmdSetKeyboard(b, st, data)]
      [] data[2] = CMD_SET_MOUSE      -> [code |-> PONG_OK, st |-> _cmdSetMouse(b, st, data)]
      [] data[2] = CMD_SET_CONNECTED  -> [code |-> PONG_OK, st |-> _cmdSetConnected(b, st, data)]
      [] data[2] = CMD_CLEAR_HID      -> [code |-> PONG_OK, st |-> _cmdClearHid(st)]
      [] data[2] = CMD_KEYBOARD_KEY   -> [code |-> PONG_OK, st |-> _cmdKeyEvent(st, data)]
      [] data[2] = CMD_MOUSE_BUTTON   -> [code |-> PONG_OK, st |-> _cmdMouseButtonEvent(st, data)]
      [] data[2] = CMD_MOUSE_MOVE     -> [code |-> PONG_OK, st |-> _cmdMouseMoveEvent(st, data)]
      [] data[2] = CMD_MOUSE_RELATIVE -> [code |-> PONG_OK, st |-> _cmdMouseRelativeEvent(st, data)]
      [] data[2] = CMD_MOUSE_WHEEL    -> [code |-> PONG_OK, st |-> _cmdMouseWheelEvent(st, data)]
      [] data[2] = CMD_REPEAT         -> [code |-> 0, st |-> st]
      [] OTHER                        -> [code |-> RESP_INVALID_ERROR, st |-> st]

\* A _handleRequest that dispatches without comparing the CRC.
_handleRequest_unchecked(b, st, data) == Dispatch(b, st, data)

\* A _handleRequest whose REPEAT case returns OK like PING.
_handleRequest_repeat_ok(b, st, data) ==
    IF crc16(data, 6) = merge8(data[7], data[8])
    THEN IF data[2] = CMD_REPEAT
         THEN [code |-> PONG_OK, st |-> st]
         ELSE Dispatch(b, st, data)
    ELSE [code |-> RESP_CRC_ERROR, st |-> st]

\* _handleRequest: the code it returns and the state its handler leaves.
_handleRequest(b, st, data) ==
    IF crc16(data, 6) = merge8(data[7], data[8])
    THEN Dispatch(b, st, data)
    ELSE [code |-> RESP_CRC_ERROR, st |-> st]

(***************************************************************************)
(* _sendResponse                                                           *)
(***************************************************************************)
Flag(cond, bit) == IF cond THEN bit ELSE 0

\* A response[1] that reads the USB state whatever the kinds of the drivers.
StatusByte1_any_kind(b, kt, mt, leds, configured, rr) ==
    PONG_OK + Flag(b.HID_DYNAMIC /\ rr, PONG_RESET_REQUIRED)
    + Flag(~configured, PONG_KEYBOARD_OFFLINE)
    + Flag(BitAnd(leds, 2) # 0, PONG_CAPS) + Flag(BitAnd(leds, 1) # 0, PONG_NUM)
    + Flag(BitAnd(leds, 4) # 0, PONG_SCROLL)
    + Flag(~configured, PONG_MOUSE_OFFLINE)

\* response[1] of an OK response.
StatusByte1(b, kt, mt, leds, configured, rr) ==
    LET l == Keyboard_getLeds(kt, leds)
        k == IF kt # "DUMMY"
             THEN Flag(Keyboard_isOffline(kt, configured), PONG_KEYBOARD_OFFLINE)
                  + Flag(l.caps, PONG_CAPS) + Flag(l.num, PONG_NUM)
                  + Flag(l.scroll, PONG_SCROLL)
             ELSE 0
        m == IF mt # "DUMMY"
             THEN Flag(Mouse_isOffline(mt, configured), PONG_MOUSE_OFFLINE)
             ELSE 0
    IN  PONG_OK + Flag(b.HID_DYNAMIC /\ rr, PONG_RESET_REQUIRED) + k + m

\* response[2] of an OK response.
StatusByte2(b, kt, mt) ==
    LET k == IF kt = "USB_KEYBOARD" THEN OUTPUTS1_KEYBOARD_USB
             ELSE IF kt = "PS2_KEYBOARD" THEN OUTPUTS1_KEYBOARD_PS2
             ELSE 0
        m == IF mt = "USB_MOUSE_ABSOLUTE_WIN98" THEN OUTPUTS1_MOUSE_USB_WIN98
             ELSE IF mt = "USB_MOUSE_ABSOLUTE" THEN OUTPUTS1_MOUSE_USB_ABS
             ELSE IF mt = "USB_MOUSE_RELATIVE" THEN OUTPUTS1_MOUSE_USB_REL
             ELSE 0
    IN  BitOr(BitOr(Flag(b.HID_DYNAMIC, OUTPUTS1_DYNAMIC), k), m)

\* response[3] of an OK response.
StatusByte3(b, connected) ==
    Flag(b.AUM, OUTPUTS2_CONNECTABLE) + Flag(b.AUM /\ connected, OUTPUTS2_CONNECTED)
    + Flag(b.HID_WITH_USB, OUTPUTS2_HAS_USB)
    + Flag(b.HID_WITH_USB /\ b.HID_WITH_USB_WIN98, OUTPUTS2_HAS_USB_WIN98)
    + Flag(b.HID_WITH_PS2, OUTPUTS2_HAS_PS2)

\* A response whose CRC is computed before bytes 1..3 are filled in.
Response_early_crc(code, b, kt, mt, leds, configured, connected, rr) ==
    LET head == IF BitAnd(code, PONG_OK) # 0
                THEN <<MAGIC_RESP, StatusByte1(b, kt, mt, leds, configured, rr),
                       StatusByte2(b, kt, mt), StatusByte3(b, connected), 0, 0>>
                ELSE <<MAGIC_RESP, code, 0, 0, 0, 0>>
    IN  head \o split16(crc16(<<MAGIC_RESP, 0, 0, 0, 0, 0>>, 6))

\* A response that fills the outputs bytes in whatever the code is.
Response_outputs_always(code, b, kt, mt, leds, configured, connected, rr) ==
    LET head == <<MAGIC_RESP,
                  IF BitAnd(code, PONG_OK) # 0
                  THEN StatusByte1(b, kt, mt, leds, configured, rr) ELSE code,
                  StatusByte2(b, kt, mt), StatusByte3(b, connected), 0, 0>>
    IN  head \o split16(crc16(head, 6))

\* A response that shows the state of the USB bus in byte 4.
Response_usb_in_byte4(code, b, kt, mt, leds, configured, connected, rr) ==
    LET head == IF BitAnd(code, PONG_OK) # 0
                THEN <<MAGIC_RESP, StatusByte1(b, kt, mt, leds, configured, rr),
                       StatusByte2(b, kt, mt), StatusByte3(b, connected),
                       Flag(configured, 1), 0>>
                ELSE <<MAGIC_RESP, code, 0, 0, 0, 0>>
    IN  head \o split16(crc16(head, 6))

\* The 8 bytes _sendResponse writes for the (already repeated) code.
Response(code, b, kt, mt, leds, configured, connected, rr) ==
    LET head == IF BitAnd(code, PONG_OK) # 0
                THEN <<MAGIC_RESP, StatusByte1(b, kt, mt, leds, configured, rr),
                       StatusByte2(b, kt, mt), StatusByte3(b, connected), 0, 0>>
                ELSE <<MAGIC_RESP, code, 0, 0, 0, 0>>
    IN  head \o split16(crc16(head, 6))

\* A _sendResponse that remembers every code it is called with, 0 included.
_sendResponse_remember_all(code, prev, b, kt, mt, leds, configured, connected, rr) ==
    LET repeated == IF code = 0 THEN prev ELSE code
    IN  [prev_code |-> code,
         response  |-> Response(repeated, b, kt, mt, leds, configured, connected, rr)]

\* A _sendResponse that never updates prev_code.
_sendResponse_no_memory(code, prev, b, kt, mt, leds, configured, connected, rr) ==
    LET repeated == IF code = 0 THEN prev ELSE code
    IN  [prev_code |-> prev,
         response  |-> Response(repeated, b, kt, mt, leds, configured, connected, rr)]

\* _sendResponse(code): prev_code after the call and the bytes written.
_sendResponse(code, prev, b, kt, mt, leds, configured, connected, rr) ==
    LET repeated == IF code = 0 THEN prev ELSE code
    IN  [prev_code |-> IF code = 0 THEN prev ELSE code,
         response  |-> Response(repeated, b, kt, mt, leds, configured, connected, rr)]

\* is_micros_timed_out(last, CMD_SERIAL_TIMEOUT)
is_micros_timed_out(ticks) == ticks > TimeoutTicks

(***************************************************************************)
(* The host and the target computer.                                       *)
(***************************************************************************)
\* A request as the host frames it: six bytes and their CRC.
FrameOf(magic, op, a, b, c, d) ==
    <<magic, op, a, b, c, d>> \o split16(crc16(<<magic, op, a, b, c, d>>, 6))

Frame(op, a, b, c, d) == FrameOf(MAGIC, op, a, b, c, d)

\* The same request with one bit of its last byte flipped on the wire.
Corrupt(f) == [f EXCEPT ![8] = BitXor(f[8], 1)]

PingFrame == Frame(CMD_PING, 0, 0, 0, 0)

RepeatFrame == Frame(CMD_REPEAT, 0, 0, 0, 0)

GoodFrames ==
    { PingFrame,
      RepeatFrame,
      Frame(CMD_SET_KEYBOARD, 2, 0, 0, 0),
      Frame(CMD_SET_KEYBOARD, 9, 0, 0, 0),
      Frame(CMD_SET_MOUSE, 16, 0, 0, 0),
      Frame(CMD_SET_CONNECTED, 1, 0, 0, 0),
      Frame(CMD_CLEAR_HID, 0, 0, 0, 0),
      Frame(CMD_KEYBOARD_KEY, 4, 1, 0, 0),
      Frame(CMD_MOUSE_BUTTON, 136, 0, 0, 0),
      Frame(CMD_MOUSE_MOVE, 127, 255, 0, 0),
      Frame(CMD_MOUSE_RELATIVE, 1, 255, 0, 0),
      Frame(CMD_MOUSE_WHEEL, 0, 1, 0, 0),
      Frame(0, 0, 0, 0, 0),
      Frame(6, 0, 0, 0, 0),
      Frame(255, 0, 0, 0, 0),
      FrameOf(0, CMD_KEYBOARD_KEY, 4, 0, 0, 0) }

Frames == GoodFrames \cup {Corrupt(f) : f \in GoodFrames}

\* The requests the host sends over SPI.
SpiFrames ==
    { PingFrame, RepeatFrame, Corrupt(PingFrame),
      Frame(CMD_MOUSE_BUTTON, 136, 0, 0, 0),
      FrameOf(0, CMD_KEYBOARD_KEY, 4, 0, 0, 0) }

\* The LED reports the target sends to the USB keyboard.
LedReports == {0, 6}

\* A stored outputs record that validates.
Record(outputs) ==
    <<MAGIC, outputs, 0, 0, 0, 0>> \o split16(crc16(<<MAGIC, outputs, 0, 0, 0, 0>>, 6))

\* What the storage may hold at power-up: erased cells, a record, a record
\* with a damaged CRC, or a record with a sound CRC and another magic.
Erased == <<255, 255, 255, 255, 255, 255, 255, 255>>

InitRecords ==
    {Erased, Record(18), Corrupt(Record(18)), FrameOf(MAGIC_RESP, 18, 0, 0, 0, 0)}

NoPing == [resp |-> <<>>, leds |-> 0, configured |-> FALSE, repeated |-> FALSE]

\* Byte 1 of a response as a code: PONG_OK for every OK response.
CodeClass(resp) == IF resp[2] >= PONG_OK THEN PONG_OK ELSE resp[2]

CrcValid(data) == crc16(data, 6) = merge8(data[7], data[8])

\* data is a sound SET_KEYBOARD or SET_MOUSE request.
IsSet(data) == data[2] \in {CMD_SET_KEYBOARD, CMD_SET_MOUSE} /\ CrcValid(data)

(***************************************************************************)
(* Initial state: power-up, before setup().                                *)
(***************************************************************************)
Ram ==
    /\ pc = "boot"
    /\ kbd_type = "null"
    /\ mouse_type = "null"
    /\ kbd_pressed = {}
    /\ usb_leds = 0
    /\ usb_configured = FALSE
    /\ aum_connected = FALSE
    /\ reset_required = FALSE
    /\ prev_code = RESP_NONE
    /\ buffer = <<>>
    /\ elapsed = 0
    /\ rx = <<>>
    /\ served = <<>>
    /\ tx = <<>>
    /\ calls = <<>>
    /\ last_code = -1
    /\ ping_resp = NoPing
    /\ set_seen = FALSE
    /\ boot_nv = <<>>
    /\ _spi_in = <<>>
    /\ _spi_out = <<0, 0, 0, 0, 0, 0, 0, 0>>
    /\ _spi_out_index = 0
    /\ receiving = FALSE
    /\ spi_data = <<>>
    /\ spi_step = 8
    /\ spi_open = <<>>
    /\ isr = <<>>

\* No frame is on the wire of the CRC checks.
CrcIdle ==
    /\ crc_frame = <<>>
    /\ crc_flip = -1

\* No runs are being compared.
TwinIdle ==
    /\ twin = <<>>
    /\ twin_resp = <<>>
    /\ twin_pc = "off"

\* No PS/2 keyboard is run.
Ps2Idle ==
    /\ PH_O_IS_KBD_PS2 = FALSE
    /\ ps2_pc = "off"
    /\ ph_g_ps2_kbd_leds = 0
    /\ queue_cap = 0
    /\ qbytes = <<>>
    /\ ps2_down = {}
    /\ ps2_op = <<>>
    /\ ps2_sent = <<>>

Init ==
    /\ build \in Builds
    /\ nv \in (IF build.HID_DYNAMIC THEN InitRecords ELSE {Erased})
    /\ Ram
    /\ CrcIdle
    /\ TwinIdle
    /\ Ps2Idle

\* The firmware before setup(), for the specifications that do not run it.
MainIdle ==
    /\ build = NoFlags
    /\ nv = Erased
    /\ Ram

\* No request served, nothing written, no driver called in this step.
Quiet ==
    /\ served' = <<>>
    /\ tx' = <<>>
    /\ calls' = <<>>
    /\ boot_nv' = <<>>
    /\ isr' = <<>>

(***************************************************************************)
(* setup()                                                                 *)
(***************************************************************************)
\* setup(): _initOutputs creates the drivers, then the serial port opens.
Setup ==
    /\ UNCHANGED others
    /\ pc = "boot"
    /\ LET made == _initOutputs(build, nv)
       IN  /\ nv' = made.nv
           /\ kbd_type' = made.kbd
           /\ mouse_type' = made.mouse
    /\ pc' = "loop"
    /\ boot_nv' = nv
    /\ served' = <<>>
    /\ tx' = <<>>
    /\ calls' = <<>>
    /\ isr' = <<>>
    /\ UNCHANGED spivars
    /\ UNCHANGED <<build, kbd_pressed, usb_leds, usb_configured, aum_connected,
                   reset_required, prev_code, buffer, elapsed, rx, last_code,
                   ping_resp, set_seen>>

\* Reset or power cycle: RAM is initialised again, the storage is kept.
Reset ==
    /\ UNCHANGED others
    /\ pc = "loop"
    /\ pc' = "boot"
    /\ kbd_type' = "null"
    /\ mouse_type' = "null"
    /\ kbd_pressed' = {}
    /\ usb_leds' = 0
    /\ usb_configured' = FALSE
    /\ aum_connected' = FALSE
    /\ reset_required' = FALSE
    /\ prev_code' = RESP_NONE
    /\ buffer' = <<>>
    /\ elapsed' = 0
    /\ rx' = <<>>
    /\ Quiet
    /\ last_code' = -1
    /\ ping_resp' = NoPing
    /\ set_seen' = FALSE
    /\ _spi_in' = <<>>
    /\ _spi_out' = <<0, 0, 0, 0, 0, 0, 0, 0>>
    /\ _spi_out_index' = 0
    /\ receiving' = FALSE
    /\ spi_data' = <<>>
    /\ spi_step' = 8
    /\ spi_open' = <<>>
    /\ UNCHANGED <<build, nv>>

(***************************************************************************)
(* loop(), CMD_SERIAL build: one iteration that does something.            *)
(***************************************************************************)
\* The histories after a response resp to request req (<<>> for a timeout).
Emitted(req, resp) ==
    /\ served' = req
    /\ tx' = resp
    /\ boot_nv' = <<>>
    /\ isr' = <<>>
    /\ last_code' = IF resp[2] # 0 THEN CodeClass(resp) ELSE last_code
    /\ ping_resp' =
         IF req = PingFrame
         THEN [resp |-> resp, leds |-> usb_leds, configured |-> usb_configured,
               repeated |-> FALSE]
         ELSE IF req = RepeatFrame /\ ping_resp.resp # <<>> /\ ~ping_resp.repeated
         THEN [ping_resp EXCEPT !.repeated = TRUE]
         ELSE NoPing

\* A framer with the check that loop() has in a comment: the index moves on
\* only while buffer[0] is MAGIC.
LoopStore_magic_checked ==
    /\ UNCHANGED others
    /\ pc = "loop"
    /\ ~build.CMD_SPI
    /\ UNCHANGED spivars
    /\ rx # <<>>
    /\ index # 7
    /\ LET stored == Append(buffer, Head(rx))
       IN  IF stored[1] = MAGIC
           THEN buffer' = stored /\ elapsed' = 0
           ELSE UNCHANGED <<buffer, elapsed>>
    /\ rx' = Tail(rx)
    /\ Quiet
    /\ UNCHANGED <<build, pc, nv, kbd_type, mouse_type, kbd_pressed, usb_leds,
                   usb_configured, aum_connected, reset_required, prev_code,
                   last_code, ping_resp, set_seen>>

\* A byte is available and index < 7: store it and restart the idle clock.
LoopStore ==
    /\ UNCHANGED others
    /\ pc = "loop"
    /\ ~build.CMD_SPI
    /\ UNCHANGED spivars
    /\ rx # <<>>
    /\ index # 7
    /\ buffer' = Append(buffer, Head(rx))
    /\ rx' = Tail(rx)
    /\ elapsed' = 0
    /\ Quiet
    /\ UNCHANGED <<build, pc, nv, kbd_type, mouse_type, kbd_pressed, usb_leds,
                   usb_configured, aum_connected, reset_required, prev_code,
                   last_code, ping_resp, set_seen>>

\* _sendResponse(_handleRequest(data)): the handler runs, then the response
\* is built from the state it leaves.
Serve(data) ==
    LET st == [nv |-> nv, reset_required |-> reset_required,
               kbd |-> kbd_type, mouse |-> mouse_type,
               pressed |-> kbd_pressed, connected |-> aum_connected,
               calls |-> <<>>]
    IN  \E done \in {_handleRequest(build, st, data)} :
        \E sent \in {_sendResponse(done.code, prev_code, build, done.st.kbd,
                                    done.st.mouse, usb_leds, usb_configured,
                                    done.st.connected, done.st.reset_required)} :
            /\ nv' = done.st.nv
            /\ reset_required' = done.st.reset_required
            /\ kbd_type' = done.st.kbd
            /\ mouse_type' = done.st.mouse
            /\ kbd_pressed' = done.st.pressed
            /\ aum_connected' = done.st.connected
            /\ calls' = done.st.calls
            /\ prev_code' = sent.prev_code
            /\ set_seen' = (set_seen \/ IsSet(data))
            /\ Emitted(data, sent.response)

\* A byte is available and index = 7: _sendResponse(_handleRequest(buffer)).
LoopDispatch ==
    /\ UNCHANGED others
    /\ pc = "loop"
    /\ ~build.CMD_SPI
    /\ UNCHANGED spivars
    /\ rx # <<>>
    /\ index = 7
    /\ Serve(Append(buffer, Head(rx)))
    /\ rx' = Tail(rx)
    /\ buffer' = <<>>
    /\ UNCHANGED <<build, pc, usb_leds, usb_configured, elapsed>>

\* Nothing is available, index > 0 and the idle clock has run out.
LoopTimeout ==
    /\ UNCHANGED others
    /\ pc = "loop"
    /\ ~build.CMD_SPI
    /\ UNCHANGED spivars
    /\ rx = <<>>
    /\ index > 0
    /\ is_micros_timed_out(elapsed)
    /\ \E sent \in {_sendResponse(RESP_TIMEOUT_ERROR, prev_code, build, kbd_type,
                                   mouse_type, usb_leds, usb_configured,
                                   aum_connected, reset_required)} :
           /\ prev_code' = sent.prev_code
           /\ Emitted(<<>>, sent.response)
    /\ calls' = <<>>
    /\ buffer' = <<>>
    /\ UNCHANGED <<build, pc, nv, kbd_type, mouse_type, kbd_pressed, usb_leds,
                   usb_configured, aum_connected, reset_required, elapsed, rx,
                   set_seen>>

(***************************************************************************)
(* loop(), CMD_SPI build, and the SPI framer of spi.cpp.                   *)
(***************************************************************************)
\* A spiReady that looks at the request only.
spiReady_request_only == _spi_in_index = 8

\* spiReady
spiReady == _spi_out[1] = 0 /\ _spi_in_index = 8

\* A spiWrite that stores the bytes in rising order.
spiWrite_index_rising(step) == step

\* spiWrite: the index of its store number step (0 is the first).
spiWrite_index(step) == 7 - step

\* spiReady() holds: _handleRequest(spiGet()) runs, _sendResponse builds the
\* response and calls spiWrite, which has stored nothing yet.
SpiDispatch ==
    /\ UNCHANGED others
    /\ pc = "loop"
    /\ build.CMD_SPI
    /\ spi_step = 8
    /\ spiReady
    /\ Serve(_spi_in)
    /\ spi_data' = tx'
    /\ spi_step' = 0
    /\ spi_open' = <<>>
    /\ UNCHANGED <<build, pc, usb_leds, usb_configured, buffer, elapsed, rx,
                   _spi_in, _spi_out, _spi_out_index, receiving>>

\* spiWrite: one store of its loop.
SpiWriteStep ==
    /\ UNCHANGED others
    /\ pc = "loop"
    /\ build.CMD_SPI
    /\ spi_step < 8
    /\ _spi_out' = [_spi_out EXCEPT ![spiWrite_index(spi_step) + 1] =
                                      spi_data[spiWrite_index(spi_step) + 1]]
    /\ spi_step' = spi_step + 1
    /\ Quiet
    /\ UNCHANGED <<build, pc, nv, kbd_type, mouse_type, kbd_pressed, usb_leds,
                   usb_configured, aum_connected, reset_required, prev_code,
                   buffer, elapsed, rx, last_code, ping_resp, set_seen,
                   _spi_in, _spi_out_index, receiving, spi_data, spi_open>>

\* An egress branch that starts again at index 0 after the last byte, and
\* releases nothing.
IsrEgress_not_released(in, wcol) ==
    /\ isr' = [mode |-> "egress", in |-> in, index |-> _spi_out_index,
               SPDR |-> _spi_out[_spi_out_index + 1], wcol |-> wcol]
    /\ _spi_out_index' = IF wcol THEN _spi_out_index
                         ELSE (_spi_out_index + 1) % 8
    /\ UNCHANGED <<_spi_in, _spi_out, receiving, spi_open>>

\* An egress branch that advances the index whatever the WCOL flag.
IsrEgress_wcol_ignored(in, wcol) ==
    /\ isr' = [mode |-> "egress", in |-> in, index |-> _spi_out_index,
               SPDR |-> _spi_out[_spi_out_index + 1], wcol |-> wcol]
    /\ IF _spi_out_index + 1 = 8
       THEN /\ _spi_out_index' = 0
            /\ _spi_in' = <<>>
            /\ _spi_out' = [_spi_out EXCEPT ![1] = 0]
       ELSE /\ _spi_out_index' = _spi_out_index + 1
            /\ UNCHANGED <<_spi_in, _spi_out>>
    /\ UNCHANGED <<receiving, spi_open>>

\* ISR(SPI_STC_vect), egress branch, for the received byte in:
\* SPDR = _spi_out[_spi_out_index]; wcol is the WCOL flag of SPSR after it.
IsrEgress(in, wcol) ==
    /\ isr' = [mode |-> "egress", in |-> in, index |-> _spi_out_index,
               SPDR |-> _spi_out[_spi_out_index + 1], wcol |-> wcol]
    /\ IF wcol
       THEN UNCHANGED <<_spi_out_index, _spi_in, _spi_out>>
       ELSE IF _spi_out_index + 1 = 8
       THEN /\ _spi_out_index' = 0
            /\ _spi_in' = <<>>
            /\ _spi_out' = [_spi_out EXCEPT ![1] = 0]
       ELSE /\ _spi_out_index' = _spi_out_index + 1
            /\ UNCHANGED <<_spi_in, _spi_out>>
    /\ UNCHANGED <<receiving, spi_open>>

\* An ingress branch that starts the buffer again when a byte arrives with
\* the buffer full.
IsrIngress_wrapping(in) ==
    LET latched == receiving \/ in # 0
    IN  /\ _spi_in' = IF ~latched THEN _spi_in
                      ELSE IF _spi_in_index < 8 THEN Append(_spi_in, in)
                      ELSE <<in>>
        /\ receiving' = (latched /\ Len(_spi_in') # 8)
        /\ isr' = [mode |-> "ingress", in |-> in, index |-> _spi_in_index,
                   SPDR |-> 0, wcol |-> FALSE]
        /\ spi_open' = IF latched /\ Len(_spi_in') = 8 THEN _spi_in' ELSE spi_open
        /\ UNCHANGED <<_spi_out, _spi_out_index>>

\* An ingress branch without the latch: a zero byte is stored like any
\* other.
IsrIngress_unlatched(in) ==
    LET stored == _spi_in_index < 8
    IN  /\ _spi_in' = IF stored THEN Append(_spi_in, in) ELSE _spi_in
        /\ receiving' = (Len(_spi_in') # 8)
        /\ isr' = [mode |-> "ingress", in |-> in, index |-> _spi_in_index,
                   SPDR |-> 0, wcol |-> FALSE]
        /\ spi_open' = IF stored /\ Len(_spi_in') = 8 THEN _spi_in' ELSE spi_open
        /\ UNCHANGED <<_spi_out, _spi_out_index>>

\* ISR(SPI_STC_vect), ingress branch, for the received byte in.
IsrIngress(in) ==
    LET latched == receiving \/ in # 0
        stored  == latched /\ _spi_in_index < 8
    IN  /\ _spi_in' = IF stored THEN Append(_spi_in, in) ELSE _spi_in
        /\ receiving' = (latched /\ Len(_spi_in') # 8)
        /\ isr' = [mode |-> "ingress", in |-> in, index |-> _spi_in_index,
                   SPDR |-> 0, wcol |-> FALSE]
        /\ spi_open' = IF stored /\ Len(_spi_in') = 8 THEN _spi_in' ELSE spi_open
        /\ UNCHANGED <<_spi_out, _spi_out_index>>

\* The host clocks one byte and ISR(SPI_STC_vect) runs, between any two
\* steps of the main context.  The host clocks the bytes of its request, or
\* a zero byte while it has none to send and no request is half sent.
SpiIsr ==
    /\ UNCHANGED others
    /\ pc = "loop"
    /\ build.CMD_SPI
    /\ rx # <<>> \/ _spi_in_index \in {0, 8} \/ _spi_out[1] # 0
    /\ rx' = IF rx = <<>> THEN rx ELSE Tail(rx)
    /\ LET in == IF rx = <<>> THEN 0 ELSE Head(rx)
       IN  IF _spi_out[1] # 0 /\ _spi_out_index < 8
           THEN \E wcol \in BOOLEAN : IsrEgress(in, wcol)
           ELSE IsrIngress(in)
    /\ served' = <<>>
    /\ tx' = <<>>
    /\ calls' = <<>>
    /\ boot_nv' = <<>>
    /\ UNCHANGED <<build, pc, nv, kbd_type, mouse_type, kbd_pressed, usb_leds,
                   usb_configured, aum_connected, reset_required, prev_code,
                   buffer, elapsed, last_code, ping_resp, set_seen, spi_data,
                   spi_step>>

(***************************************************************************)
(* The environment: time, the host on the serial line, the target on USB.  *)
(***************************************************************************)
\* Time passes.  Only the ticks that loop() can see are counted: `last` is
\* set again by every stored byte, and read only with nothing available.
Tick ==
    /\ UNCHANGED others
    /\ pc = "loop"
    /\ ~build.CMD_SPI
    /\ UNCHANGED spivars
    /\ rx = <<>>
    /\ index > 0
    /\ elapsed <= TimeoutTicks
    /\ elapsed' = elapsed + 1
    /\ Quiet
    /\ UNCHANGED <<build, pc, nv, kbd_type, mouse_type, kbd_pressed, usb_leds,
                   usb_configured, aum_connected, reset_required, prev_code,
                   buffer, rx, last_code, ping_resp, set_seen>>

\* The host sends a request, sound or corrupted.  It sends a PING also
\* while the firmware still holds a truncated frame, which misaligns the
\* frames that follow.
HostSendOf(frames) ==
    /\ UNCHANGED others
    /\ pc = "loop"
    /\ UNCHANGED spivars
    /\ rx = <<>>
    /\ \E f \in frames :
         /\ buffer = <<>> \/ f = PingFrame
         /\ rx' = f
         /\ ping_resp' = IF f = RepeatFrame THEN ping_resp ELSE NoPing
    /\ Quiet
    /\ UNCHANGED <<build, pc, nv, kbd_type, mouse_type, kbd_pressed, usb_leds,
                   usb_configured, aum_connected, reset_required, prev_code,
                   buffer, elapsed, last_code, set_seen>>

HostSend == HostSendOf(IF build.CMD_SPI THEN SpiFrames ELSE Frames)

\* The host sends the first bytes of a request and stops.
HostSendPartial ==
    /\ UNCHANGED others
    /\ pc = "loop"
    /\ ~build.CMD_SPI
    /\ UNCHANGED spivars
    /\ rx = <<>>
    /\ buffer = <<>>
    /\ \E f \in GoodFrames : rx' = SubSeq(f, 1, PartialLen)
    /\ ping_resp' = NoPing
    /\ Quiet
    /\ UNCHANGED <<build, pc, nv, kbd_type, mouse_type, kbd_pressed, usb_leds,
                   usb_configured, aum_connected, reset_required, prev_code,
                   buffer, elapsed, last_code, set_seen>>

\* The target configures or drops the USB device.
TargetUsb ==
    /\ UNCHANGED others
    /\ pc = "loop"
    /\ UNCHANGED spivars
    /\ usb_configured' = ~usb_configured
    /\ Quiet
    /\ UNCHANGED <<build, pc, nv, kbd_type, mouse_type, kbd_pressed, usb_leds,
                   aum_connected, reset_required, prev_code, buffer, elapsed, rx,
                   last_code, ping_resp, set_seen>>

\* The target sends an LED report to the USB keyboard.
TargetLeds ==
    /\ UNCHANGED others
    /\ pc = "loop"
    /\ UNCHANGED spivars
    /\ kbd_type = "USB_KEYBOARD"
    /\ \E l \in LedReports : l # usb_leds /\ usb_leds' = l
    /\ Quiet
    /\ UNCHANGED <<build, pc, nv, kbd_type, mouse_type, kbd_pressed,
                   usb_configured, aum_connected, reset_required, prev_code,
                   buffer, elapsed, rx, last_code, ping_resp, set_seen>>

Next ==
    \/ Setup
    \/ Reset
    \/ LoopStore
    \/ LoopDispatch
    \/ LoopTimeout
    \/ SpiDispatch
    \/ SpiWriteStep
    \/ SpiIsr
    \/ Tick
    \/ HostSend
    \/ HostSendPartial
    \/ TargetUsb
    \/ TargetLeds

Spec == Init /\ [][Next]_vars

(***************************************************************************)
(* The SPI build with a main loop that keeps running and a host that keeps *)
(* clocking bytes: setup() and the steps of loop() are taken when they can *)
(* be, ISR(SPI_STC_vect) keeps being invoked, and a write collision is not *)
(* flagged for ever.                                                       *)
(***************************************************************************)
SpiInit == Init /\ build.CMD_SPI

\* An invocation of the routine with the WCOL flag clear.
SpiIsrNoCollision == SpiIsr /\ ~isr'.wcol

\* The host sends a PING, with a sound CRC or a damaged one.
SpiHostSend == HostSendOf({PingFrame, Corrupt(PingFrame)})

SpiNext ==
    \/ Setup
    \/ SpiDispatch
    \/ SpiWriteStep
    \/ SpiIsr
    \/ SpiHostSend

\* Weak fairness of SpiDispatch, which can be taken exactly when spiReady()
\* holds in the loop and spiWrite is not running.
SpiDispatchFair ==
    \/ []<>~(build.CMD_SPI /\ pc = "loop" /\ spi_step = 8 /\ spiReady)
    \/ []<><<SpiDispatch>>_vars

SpecSpi ==
    /\ SpiInit
    /\ [][SpiNext]_vars
    /\ WF_vars(Setup)
    /\ SpiDispatchFair
    /\ WF_vars(SpiWriteStep)
    /\ WF_vars(SpiIsrNoCollision)

(***************************************************************************)
(* A frame on the wire: the sender appends split16(crc16(payload)), one    *)
(* bit is damaged, the damage is undone.                                   *)
(***************************************************************************)
\* The values of the payload bytes.
CrcPayloadBytes == {0, 51, 255}

CrcPayloads ==
    { <<a, b, c, d, e, f>> : a \in CrcPayloadBytes, b \in CrcPayloadBytes,
                             c \in CrcPayloadBytes, d \in CrcPayloadBytes,
                             e \in CrcPayloadBytes, f \in CrcPayloadBytes }

\* The frame with bit number bit (0..63, bit 0 the lowest of byte 0) flipped.
FlipBit(frame, bit) ==
    [frame EXCEPT ![bit \div 8 + 1] = Xor16(@, 2 ^ (bit % 8))]

CrcInit ==
    /\ MainIdle
    /\ TwinIdle
    /\ Ps2Idle
    /\ crc_frame \in CrcPayloads
    /\ crc_flip = -1

\* split16(crc16(payload, 6), &frame[6], &frame[7])
CrcAppend ==
    /\ Len(crc_frame) = 6
    /\ crc_frame' = crc_frame \o split16(crc16(crc_frame, 6))
    /\ UNCHANGED <<crc_flip, crc_rest>>

\* One bit of the frame is flipped on the wire.
CrcDamage ==
    /\ Len(crc_frame) = 8
    /\ crc_flip = -1
    /\ \E bit \in 0..63 :
           /\ crc_frame' = FlipBit(crc_frame, bit)
           /\ crc_flip' = bit
    /\ UNCHANGED crc_rest

\* The damaged bit is flipped back.
CrcRepair ==
    /\ crc_flip # -1
    /\ crc_frame' = FlipBit(crc_frame, crc_flip)
    /\ crc_flip' = -1
    /\ UNCHANGED crc_rest

CrcNext ==
    \/ CrcAppend
    \/ CrcDamage
    \/ CrcRepair

SpecCrc == CrcInit /\ [][CrcNext]_vars

(***************************************************************************)
(* Two runs of the firmware that boot from the same storage and are sent   *)
(* the same requests, each with a target of its own on the USB bus.        *)
(***************************************************************************)
Runs == {"a", "b"}

TwinInit ==
    /\ build \in Builds
    /\ nv \in (IF build.HID_DYNAMIC THEN InitRecords ELSE {Erased})
    /\ Ram
    /\ CrcIdle
    /\ Ps2Idle
    /\ twin = [r \in Runs |->
                 [st |-> [nv |-> nv, reset_required |-> FALSE, kbd |-> "null",
                          mouse |-> "null", pressed |-> {}, connected |-> FALSE,
                          calls |-> <<>>],
                  prev_code |-> RESP_NONE, leds |-> 0, configured |-> FALSE]]
    /\ twin_resp = <<>>
    /\ twin_pc = "boot"

\* setup() of one run.
TwinBoot(run) ==
    LET made == _initOutputs(build, run.st.nv)
    IN  [run EXCEPT !.st.nv = made.nv, !.st.kbd = made.kbd,
                    !.st.mouse = made.mouse]

\* setup() in both runs.
TwinSetup ==
    /\ twin_pc = "boot"
    /\ twin' = [r \in Runs |-> TwinBoot(twin[r])]
    /\ twin_pc' = "loop"
    /\ twin_resp' = <<>>
    /\ UNCHANGED twin_rest

\* Both runs are reset at the same place of the request sequence: RAM is
\* initialised again, the storage is kept.
TwinReset ==
    /\ twin_pc = "loop"
    /\ twin' = [r \in Runs |->
                  [st |-> [nv |-> twin[r].st.nv, reset_required |-> FALSE,
                           kbd |-> "null", mouse |-> "null", pressed |-> {},
                           connected |-> FALSE, calls |-> <<>>],
                   prev_code |-> RESP_NONE, leds |-> 0, configured |-> FALSE]]
    /\ twin_pc' = "boot"
    /\ twin_resp' = <<>>
    /\ UNCHANGED twin_rest

\* The requests sent to the two runs.
TwinFrames ==
    { PingFrame,
      RepeatFrame,
      Frame(CMD_SET_KEYBOARD, 2, 0, 0, 0),
      Frame(CMD_SET_MOUSE, 16, 0, 0, 0),
      Frame(CMD_SET_CONNECTED, 1, 0, 0, 0),
      Frame(CMD_KEYBOARD_KEY, 4, 1, 0, 0),
      Frame(255, 0, 0, 0, 0),
      Corrupt(PingFrame) }

\* _handleRequest(data) in one run.
TwinHandled(run, data) ==
    _handleRequest(build, [run.st EXCEPT !.calls = <<>>], data)

\* _sendResponse(done.code) in one run, done being what _handleRequest
\* returned.
TwinSent(run, done) ==
    _sendResponse(done.code, run.prev_code, build, done.st.kbd, done.st.mouse,
                  run.leds, run.configured, done.st.connected,
                  done.st.reset_required)

\* The same request is served in both runs.
TwinServe ==
    /\ twin_pc = "loop"
    /\ \E f \in TwinFrames :
       \E da \in {TwinHandled(twin["a"], f)} :
       \E db \in {TwinHandled(twin["b"], f)} :
       \E sa \in {TwinSent(twin["a"], da)} :
       \E sb \in {TwinSent(twin["b"], db)} :
           /\ twin' = [r \in Runs |->
                         [twin[r] EXCEPT
                            !.st = IF r = "a" THEN da.st ELSE db.st,
                            !.prev_code = IF r = "a" THEN sa.prev_code
                                          ELSE sb.prev_code]]
           /\ twin_resp' = [r \in Runs |-> IF r = "a" THEN sa.response
                                           ELSE sb.response]
    /\ UNCHANGED <<twin_pc, twin_rest>>

\* The target of one run configures or deconfigures the USB device.
TwinTargetUsb ==
    /\ twin_pc = "loop"
    /\ \E r \in Runs : twin' = [twin EXCEPT ![r].configured = ~@]
    /\ twin_resp' = <<>>
    /\ UNCHANGED <<twin_pc, twin_rest>>

\* The target of one run sends an LED report to the USB keyboard.
TwinTargetLeds ==
    /\ twin_pc = "loop"
    /\ \E r \in Runs :
           /\ twin[r].st.kbd = "USB_KEYBOARD"
           /\ \E l \in LedReports :
                  /\ l # twin[r].leds
                  /\ twin' = [twin EXCEPT ![r].leds = l]
    /\ twin_resp' = <<>>
    /\ UNCHANGED <<twin_pc, twin_rest>>

TwinNext ==
    \/ TwinSetup
    \/ TwinReset
    \/ TwinServe
    \/ TwinTargetUsb
    \/ TwinTargetLeds

SpecTwin == TwinInit /\ [][TwinNext]_vars

(***************************************************************************)
(* The PS/2 keyboard of the pico firmware, ph_ps2.c.                       *)
(***************************************************************************)
ph_ps2_mod2ps2 == <<20, 18, 17, 31, 20, 89, 17, 39>>

ph_ps2_hid2ps2 ==
    <<0, 0, 252, 0, 28, 50, 33, 35, 36, 43, 52, 51, 67, 59, 66, 75,
      58, 49, 68, 77, 21, 45, 27, 44, 60, 42, 29, 34, 53, 26, 22, 30,
      38, 37, 46, 54, 61, 62, 70, 69, 90, 118, 102, 13, 41, 78, 85, 84,
      91, 93, 93, 76, 82, 14, 65, 73, 74, 88, 5, 6, 4, 12, 3, 11,
      131, 10, 1, 9, 120, 7, 124, 126, 126, 112, 108, 125, 113, 105, 122, 116,
      107, 114, 117, 119, 74, 124, 123, 121, 90, 105, 114, 122, 107, 115, 116, 108,
      117, 125, 112, 113, 97, 47, 55, 15, 8, 16, 24, 32, 40, 48, 56, 64,
      72, 80, 87, 95>>

ph_ps2_maparray == Len(ph_ps2_hid2ps2)

\* queue_try_add: the queue after the call.
queue_try_add(queue, byte) ==
    IF Len(queue) < queue_cap THEN Append(queue, byte) ELSE queue

\* A ph_ps2_kbd_send that queues the bytes of one call together or not at
\* all.
ph_ps2_kbd_send_together(queue, bytes) ==
    IF Len(queue) + Len(bytes) <= queue_cap THEN queue \o bytes ELSE queue

\* ph_ps2_kbd_send for each byte of bytes in turn: the queue after the calls.
RECURSIVE ph_ps2_kbd_send(_, _)
ph_ps2_kbd_send(queue, bytes) ==
    IF bytes = <<>> THEN queue
    ELSE ph_ps2_kbd_send(queue_try_add(queue, Head(bytes)), Tail(bytes))

\* A ph_ps2_kbd_maybe_send_e0 that knows the navigation block only.
ph_ps2_kbd_maybe_send_e0_navigation(byte) ==
    IF byte >= 73 /\ byte <= 82 THEN <<224>> ELSE <<>>

\* ph_ps2_kbd_maybe_send_e0: the bytes it passes to ph_ps2_kbd_send.
ph_ps2_kbd_maybe_send_e0(byte) ==
    IF \/ byte = 70
       \/ (byte >= 73 /\ byte <= 82)
       \/ byte = 84 \/ byte = 88
       \/ byte = 101 \/ byte = 102
       \/ byte >= 129
    THEN <<224>>
    ELSE <<>>

\* A ph_ps2_kbd_receive that acknowledges the echo command as well.
ph_ps2_kbd_receive_echo_acked(byte) ==
    IF byte = 255 THEN <<250, 170>>
    ELSE IF byte = 254 THEN <<>>
    ELSE IF byte = 238 THEN <<250, 238>>
    ELSE IF byte = 242 THEN <<250, 171, 131>>
    ELSE <<250>>

\* ph_ps2_kbd_receive: the bytes it passes to ph_ps2_kbd_send, in order.
ph_ps2_kbd_receive(byte) ==
    IF byte = 237 \/ byte = 243 THEN <<250>>
    ELSE IF byte = 255 THEN <<250, 170>>
    ELSE IF byte = 254 THEN <<>>
    ELSE IF byte = 238 THEN <<238>>
    ELSE IF byte = 242 THEN <<250, 171, 131>>
    ELSE <<250>>

\* A modifier branch that prefixes every modifier above the third.
ph_ps2_kbd_send_key_modifier_above_2(mod, state) ==
    (IF mod > 2 THEN <<224>> ELSE <<>>)
    \o (IF ~state THEN <<240>> ELSE <<>>)
    \o <<ph_ps2_mod2ps2[mod + 1]>>

\* ph_ps2_kbd_send_key, the branch of the modifiers (key - 0xE0 is mod).
ph_ps2_kbd_send_key_modifier(mod, state) ==
    (IF mod > 2 /\ mod # 5 THEN <<224>> ELSE <<>>)
    \o (IF ~state THEN <<240>> ELSE <<>>)
    \o <<ph_ps2_mod2ps2[mod + 1]>>

\* A branch of key 0x48 that takes the arm the source disables with
\* "if (false)".
ph_ps2_kbd_send_key_pause_shifted(state) ==
    IF state THEN <<224, 126, 224, 240, 126>> ELSE <<>>

\* ph_ps2_kbd_send_key, the branch of key 0x48.
ph_ps2_kbd_send_key_pause(state) ==
    IF state THEN <<225, 20, 119, 225, 240, 20, 240, 119>> ELSE <<>>

\* ph_ps2_kbd_send_key: the bytes it passes to ph_ps2_kbd_send, in order.
ph_ps2_kbd_send_key(is_ps2, key, state) ==
    IF ~is_ps2 THEN <<>>
    ELSE IF key >= 224 /\ key <= 231
    THEN ph_ps2_kbd_send_key_modifier(key - 224, state)
    ELSE IF key < ph_ps2_maparray
    THEN IF key = 72
         THEN ph_ps2_kbd_send_key_pause(state)
         ELSE ph_ps2_kbd_maybe_send_e0(key)
              \o (IF ~state THEN <<240>> ELSE <<>>)
              \o <<ph_ps2_hid2ps2[key + 1]>>
    ELSE <<>>

\* ph_ps2_send_clear: the bytes it passes to ph_ps2_kbd_send (its body is a
\* comment).
ph_ps2_send_clear == <<>>

\* ph_ps2_kbd_receive: ph_g_ps2_kbd_leds after the call (no statement of
\* ph_ps2.c assigns it).
ph_ps2_kbd_receive_leds(leds, byte) == leds

\* The bytes the host sends to the keyboard: the commands, and 0x00 and 0x07
\* as arguments of 0xED and 0xF3.
Ps2HostBytes == {237, 243, 255, 254, 238, 242, 244, 245, 246, 0, 7}

\* The command the host sent in the step before, if it takes an argument
\* byte (0xED, 0xF3), else 0.
Ps2After ==
    IF Len(ps2_op) = 3 /\ ps2_op[1] = "receive" /\ ps2_op[2] \in {237, 243}
    THEN ps2_op[2]
    ELSE 0

\* The keys of the KEY commands: A, Insert, left Shift, and a usage beyond
\* the table.
Ps2Keys == {4, 73, 225, 116}

\* The state before ph_ps2_init, with a keyboard queue of the given capacity.
Ps2StartWith(cap) ==
    /\ queue_cap = cap
    /\ MainIdle
    /\ CrcIdle
    /\ TwinIdle
    /\ PH_O_IS_KBD_PS2 \in BOOLEAN
    /\ ps2_pc = "boot"
    /\ ph_g_ps2_kbd_leds = 0
    /\ qbytes = <<>>
    /\ ps2_down = {}
    /\ ps2_op = <<>>
    /\ ps2_sent = <<>>

Ps2Start == Ps2StartWith(QueueCap)

\* One call that passes bytes to ph_ps2_kbd_send.
Ps2Call(op, bytes) ==
    /\ ps2_op' = op
    /\ ps2_sent' = bytes
    /\ qbytes' = ph_ps2_kbd_send(qbytes, bytes)

\* ph_ps2_init
Ps2Init ==
    /\ ps2_pc = "boot"
    /\ ps2_pc' = "run"
    /\ Ps2Call(<<"init">>, IF PH_O_IS_KBD_PS2 THEN <<170>> ELSE <<>>)
    /\ UNCHANGED <<ph_g_ps2_kbd_leds, queue_cap, PH_O_IS_KBD_PS2, ps2_down, ps2_rest>>

\* The host sends one of the given bytes: the PHY calls ph_ps2_kbd_receive.
Ps2ReceiveOf(bytes) ==
    /\ ps2_pc = "run"
    /\ PH_O_IS_KBD_PS2
    /\ \E byte \in bytes :
           /\ Ps2Call(<<"receive", byte, Ps2After>>, ph_ps2_kbd_receive(byte))
           /\ ph_g_ps2_kbd_leds' = ph_ps2_kbd_receive_leds(ph_g_ps2_kbd_leds, byte)
    /\ UNCHANGED <<queue_cap, PH_O_IS_KBD_PS2, ps2_pc, ps2_down, ps2_rest>>

Ps2Receive == Ps2ReceiveOf(Ps2HostBytes)

\* A KEY command: ph_ps2_kbd_send_key.  A key is down once its make code is
\* in the queue and up once its break code is.
Ps2SendKeyOf(keys) ==
    /\ ps2_pc = "run"
    /\ \E key \in keys, state \in BOOLEAN :
           /\ Ps2Call(<<"key", key, state>>,
                      ph_ps2_kbd_send_key(PH_O_IS_KBD_PS2, key, state))
           /\ ps2_down' =
                  IF ps2_sent' = <<>> \/ qbytes' # qbytes \o ps2_sent'
                  THEN ps2_down
                  ELSE IF state THEN ps2_down \cup {key}
                  ELSE ps2_down \ {key}
    /\ UNCHANGED <<ph_g_ps2_kbd_leds, queue_cap, PH_O_IS_KBD_PS2, ps2_pc, ps2_rest>>

\* A CLEAR_HID command: ph_ps2_send_clear.
Ps2SendClear ==
    /\ ps2_pc = "run"
    /\ Ps2Call(<<"clear">>, ph_ps2_send_clear)
    /\ ps2_down' = IF qbytes' = qbytes THEN ps2_down ELSE {}
    /\ UNCHANGED <<ph_g_ps2_kbd_leds, queue_cap, PH_O_IS_KBD_PS2, ps2_pc, ps2_rest>>

\* ph_ps2_phy_task takes the byte at the head of the queue to clock it out.
Ps2PhyTask ==
    /\ ps2_pc = "run"
    /\ qbytes # <<>>
    /\ qbytes' = Tail(qbytes)
    /\ ps2_op' = <<"task">>
    /\ ps2_sent' = <<>>
    /\ UNCHANGED <<ph_g_ps2_kbd_leds, queue_cap, PH_O_IS_KBD_PS2, ps2_pc, ps2_down, ps2_rest>>

Ps2SendKey == Ps2SendKeyOf(Ps2Keys)

Ps2Next ==
    \/ Ps2Init
    \/ Ps2Receive
    \/ Ps2SendKey
    \/ Ps2SendClear
    \/ Ps2PhyTask

SpecPs2 == Ps2Start /\ [][Ps2Next]_vars

(***************************************************************************)
(* The PS/2 keyboard with every usage of its two tables: one key at a time, *)
(* sent when the queue holds nothing but acknowledgements to the host,     *)
(* which sends the enable command 0xF4 only.                               *)
(***************************************************************************)
\* The usages of ph_ps2_hid2ps2 and of ph_ps2_mod2ps2, and the first usage
\* outside each range.
Ps2AllKeys == (0 .. ph_ps2_maparray) \cup (223 .. 232)

Ps2KeysStart == Ps2StartWith(KeysQueueCap)

\* The answer of ph_ps2_kbd_receive(0xF4).
Ps2Answers == {250}

Ps2Enable == Ps2ReceiveOf({244})

Ps2SendAnyKey ==
    /\ \A i \in 1 .. Len(qbytes) : qbytes[i] \in Ps2Answers
    /\ \E key \in Ps2AllKeys :
           /\ ps2_down \subseteq {key}
           /\ Ps2SendKeyOf({key})

Ps2KeysNext ==
    \/ Ps2Init
    \/ Ps2Enable
    \/ Ps2SendAnyKey
    \/ Ps2PhyTask

SpecPs2Keys == Ps2KeysStart /\ [][Ps2KeysNext]_vars

(***************************************************************************)
(* Properties of the request dispatcher and of _sendResponse.              *)
(***************************************************************************)
\* What a command handler can change.
HandlerState ==
    <<nv, reset_required, kbd_type, mouse_type, kbd_pressed, aum_connected>>

\* The opcodes of the switch in _handleRequest.
TableOpcodes ==
    {CMD_PING, CMD_REPEAT, CMD_SET_KEYBOARD, CMD_SET_MOUSE, CMD_SET_CONNECTED,
     CMD_CLEAR_HID, CMD_KEYBOARD_KEY, CMD_MOUSE_BUTTON, CMD_MOUSE_MOVE,
     CMD_MOUSE_RELATIVE, CMD_MOUSE_WHEEL}

\* data is a REPEAT request with a sound CRC.
IsRepeat(data) == data # <<>> /\ data[2] = CMD_REPEAT /\ CrcValid(data)

\* The response has the OK bit.
IsOk(resp) == BitAnd(resp[2], PONG_OK) # 0

\* C1: a frame whose CRC bytes differ from the CRC-16 of its first six
\* bytes is answered CRC_ERROR whatever its opcode and payload are: no
\* handler runs, no driver method is called, the storage is not written and
\* _reset_required keeps its value.
C1_CrcMismatch ==
    [][ (served' # <<>> /\ ~CrcValid(served')) =>
            /\ tx'[1] = MAGIC_RESP
            /\ tx'[2] = RESP_CRC_ERROR
            /\ calls' = <<>>
            /\ HandlerState' = HandlerState ]_vars

\* A corrupted SET_KEYBOARD reached a dynamic build and left no trace.
C1_Witness ==
    /\ served # <<>>
    /\ ~CrcValid(served)
    /\ served[2] = CMD_SET_KEYBOARD
    /\ build.HID_DYNAMIC
    /\ tx[2] = RESP_CRC_ERROR
    /\ ~reset_required

\* C2: every request with a sound CRC gets a response whose own CRC is
\* sound; an opcode of the table other than REPEAT is answered OK, and an
\* opcode outside the table is answered INVALID_ERROR and changes nothing.
C2_Totality ==
    [][ (served' # <<>> /\ CrcValid(served')) =>
            /\ Len(tx') = 8
            /\ tx'[1] = MAGIC_RESP
            /\ CrcValid(tx')
            /\ served'[2] \in TableOpcodes \ {CMD_REPEAT} => IsOk(tx')
            /\ served'[2] \notin TableOpcodes =>
                   /\ tx'[2] = RESP_INVALID_ERROR
                   /\ calls' = <<>>
                   /\ HandlerState' = HandlerState ]_vars

\* A sound frame with opcode 0xFF was answered INVALID_ERROR.
C2_Witness ==
    /\ served # <<>>
    /\ CrcValid(served)
    /\ served[2] = 255
    /\ tx[2] = RESP_INVALID_ERROR
    /\ CrcValid(tx)

\* C3: a REPEAT request sends again the code of the latest response whose
\* code was not zero, runs no handler, and leaves the remembered code as it
\* was.
C3_Repeat ==
    [][ IsRepeat(served') =>
            /\ calls' = <<>>
            /\ HandlerState' = HandlerState
            /\ prev_code' = prev_code
            /\ last_code # -1 => CodeClass(tx') = last_code ]_vars

\* A REPEAT after a timeout was answered TIMEOUT_ERROR again.
C3_Witness ==
    /\ IsRepeat(served)
    /\ last_code = RESP_TIMEOUT_ERROR
    /\ tx[2] = RESP_TIMEOUT_ERROR
    /\ prev_code = RESP_TIMEOUT_ERROR

\* C4 as the specification states it: the REPEAT that follows a PING
\* answered R is answered R byte for byte, LED and offline bits included.
C4_RepeatByteForByte ==
    (ping_resp.repeated /\ tx # <<>>) => tx = ping_resp.resp

\* The bits of response[1] that _sendResponse reads from the drivers.
DriverBits ==
    PONG_CAPS + PONG_SCROLL + PONG_NUM + PONG_KEYBOARD_OFFLINE + PONG_MOUSE_OFFLINE

\* C4: the REPEAT that follows a PING answered R is answered with an OK
\* response built from the status at the time of the REPEAT: it is R
\* outside the LED and offline bits of byte 1 and the CRC, and it is R
\* byte for byte when the LED report and the USB state are those of the
\* PING.
C4_RepeatRebuilt ==
    (ping_resp.repeated /\ tx # <<>>) =>
        LET R == ping_resp.resp
        IN  /\ IsOk(tx)
            /\ tx[1] = R[1]
            /\ BitAnd(tx[2], BitNot8(DriverBits)) = BitAnd(R[2], BitNot8(DriverBits))
            /\ SubSeq(tx, 3, 6) = SubSeq(R, 3, 6)
            /\ CrcValid(tx)
            /\ (usb_leds = ping_resp.leds /\ usb_configured = ping_resp.configured)
                   => tx = R

\* A REPEAT right after a PING was answered like the PING.
C4_Witness ==
    /\ ping_resp.repeated
    /\ tx # <<>>
    /\ IsRepeat(served)
    /\ tx = ping_resp.resp

\* C5: when no response with a non-zero code has been sent since boot, a
\* REPEAT is answered NONE in byte 1 with bytes 2..5 zero.
C5_RepeatNone ==
    [][ (IsRepeat(served') /\ last_code = -1) =>
            /\ tx'[2] = RESP_NONE
            /\ SubSeq(tx', 3, 6) = <<0, 0, 0, 0>>
            /\ CrcValid(tx') ]_vars

\* The first request after boot was a REPEAT, answered NONE.
C5_Witness ==
    /\ IsRepeat(served)
    /\ last_code = -1
    /\ tx = <<MAGIC_RESP, RESP_NONE, 0, 0, 0, 0>>
            \o split16(crc16(<<MAGIC_RESP, RESP_NONE, 0, 0, 0, 0>>, 6))

\* C6: every response has MAGIC_RESP in byte 0, zero in bytes 4..5 and a
\* sound CRC in bytes 6..7; an error response has the OK bit clear, only the
\* error code in byte 1 and zero in bytes 2..3; the response to a sound
\* request of the table other than REPEAT has the OK bit, and the response
\* to a timeout is TIMEOUT_ERROR.
C6_ResponseFormat ==
    tx # <<>> =>
        /\ Len(tx) = 8
        /\ tx[1] = MAGIC_RESP
        /\ tx[5] = 0 /\ tx[6] = 0
        /\ CrcValid(tx)
        /\ ~IsOk(tx) =>
               /\ tx[2] \in {RESP_NONE, RESP_CRC_ERROR, RESP_INVALID_ERROR,
                             RESP_TIMEOUT_ERROR}
               /\ tx[3] = 0 /\ tx[4] = 0
        /\ served = <<>> => tx[2] = RESP_TIMEOUT_ERROR
        /\ (served # <<>> /\ CrcValid(served)
               /\ served[2] \in TableOpcodes \ {CMD_REPEAT}) => IsOk(tx)

\* A timeout was answered with an error response that carries no status,
\* on a build whose OK responses have non-zero bytes 2..3.
C6_Witness ==
    /\ tx # <<>>
    /\ served = <<>>
    /\ tx[2] = RESP_TIMEOUT_ERROR
    /\ tx[3] = 0 /\ tx[4] = 0
    /\ StatusByte2(build, kbd_type, mouse_type) # 0
    /\ StatusByte3(build, aum_connected) # 0

\* C7: the objects _kbd and _mouse point to are chosen by setup() and stay
\* until the next reset: SET_KEYBOARD and SET_MOUSE change neither the
\* active drivers, nor the keys they hold, nor the kinds response[2]
\* reports, and call no driver method.
C7_NoHotSwap ==
    [][ /\ (pc = "loop" /\ pc' = "loop") =>
               (kbd_type' = kbd_type /\ mouse_type' = mouse_type)
        /\ (served' # <<>> /\ IsSet(served')) =>
               /\ kbd_pressed' = kbd_pressed
               /\ calls' = <<>>
               /\ IsOk(tx')
               /\ tx'[3] = StatusByte2(build, kbd_type, mouse_type) ]_vars

\* SET_KEYBOARD stored PS2 while the USB keyboard stayed active and reported.
C7_Witness ==
    /\ served # <<>>
    /\ IsSet(served)
    /\ served[2] = CMD_SET_KEYBOARD
    /\ BitAnd(_readOutputs(nv), OUTPUTS1_KEYBOARD_MASK) = OUTPUTS1_KEYBOARD_PS2
    /\ kbd_type = "USB_KEYBOARD"
    /\ BitAnd(tx[3], OUTPUTS1_KEYBOARD_MASK) = OUTPUTS1_KEYBOARD_USB

\* C8: on a dynamic build the response to SET_KEYBOARD or SET_MOUSE is OK
\* with RESET_REQUIRED, every OK response after it until the next reset
\* has RESET_REQUIRED, and no OK response before the first of them has it.
C8_ResetRequired ==
    (build.HID_DYNAMIC /\ tx # <<>>) =>
        /\ (served # <<>> /\ IsSet(served)) =>
               (IsOk(tx) /\ BitAnd(tx[2], PONG_RESET_REQUIRED) # 0)
        /\ IsOk(tx) => ((BitAnd(tx[2], PONG_RESET_REQUIRED) # 0) <=> set_seen)

\* A PING served after a SET command was answered with RESET_REQUIRED.
C8_Witness ==
    /\ build.HID_DYNAMIC
    /\ served = PingFrame
    /\ set_seen
    /\ IsOk(tx)
    /\ BitAnd(tx[2], PONG_RESET_REQUIRED) # 0

\* The byte writeOutputs(mask, bits, force) is to store over the storage.
MaskedOutputs(storage, mask, bits, force) ==
    LET old == IF force \/ _readOutputs(storage) < 0 THEN 0
               ELSE _readOutputs(storage)
    IN  BitOr(BitAnd(old, BitNot8(mask)), BitAnd(bits, mask))

\* C9: writeOutputs(mask, bits, false) stores (old & ~mask) | (bits & mask),
\* where old is what readOutputs returns, or 0 when it returns -1: no bit
\* of bits outside mask reaches the stored byte.
C9_MaskedWrite ==
    [][ (build.HID_DYNAMIC /\ served' # <<>> /\ IsSet(served')) =>
            LET mask == IF served'[2] = CMD_SET_KEYBOARD
                        THEN OUTPUTS1_KEYBOARD_MASK ELSE OUTPUTS1_MOUSE_MASK
            IN  /\ _readOutputs(nv') = MaskedOutputs(nv, mask, served'[3], FALSE)
                /\ BitAnd(_readOutputs(nv'), BitNot8(mask))
                       = BitAnd(MaskedOutputs(nv, 0, 0, FALSE), BitNot8(mask)) ]_vars

\* C10: after a sound SET_KEYBOARD with payload M the record reads back
\* with M in the keyboard field and the mouse field it had before, and it
\* validates: magic and CRC are sound.
C10_RecordIntegrity ==
    [][ (build.HID_DYNAMIC /\ served' # <<>> /\ IsSet(served')
             /\ served'[2] = CMD_SET_KEYBOARD) =>
            /\ nv'[1] = MAGIC
            /\ CrcValid(nv')
            /\ BitAnd(_readOutputs(nv'), OUTPUTS1_KEYBOARD_MASK)
                   = BitAnd(served'[3], OUTPUTS1_KEYBOARD_MASK)
            /\ BitAnd(_readOutputs(nv'), OUTPUTS1_MOUSE_MASK)
                   = BitAnd(MaskedOutputs(nv, 0, 0, FALSE), OUTPUTS1_MOUSE_MASK) ]_vars

(***************************************************************************)
(* Properties of setup(), of the framers and of the response.              *)
(***************************************************************************)
\* A stored record validates: its magic and its CRC are sound.
RecordValid(storage) == storage[1] = MAGIC /\ CrcValid(storage)

\* C11: at startup, on a build with storage, a record whose byte 0 is not
\* MAGIC or whose CRC mismatches is treated as absent: the drivers are
\* made from the compile-time defaults and a fresh record (MAGIC, defaults,
\* zero reserved bytes, sound CRC) is written, so that a read right after
\* setup() returns the defaults byte; a record that validates is left as it
\* is and the drivers are made from its outputs byte.
C11_StartupFallback ==
    [][ (build.HID_DYNAMIC /\ pc = "boot" /\ pc' = "loop") =>
            IF RecordValid(nv)
            THEN /\ nv' = nv
                 /\ kbd_type' = makeKeyboard(build, KeyboardKindOf(nv[2]))
                 /\ mouse_type' = makeMouse(build, MouseKindOf(nv[2]))
            ELSE /\ nv' = <<MAGIC, DefaultOutputs(build), 0, 0, 0, 0>>
                           \o split16(crc16(<<MAGIC, DefaultOutputs(build), 0, 0, 0, 0>>, 6))
                 /\ _readOutputs(nv') = DefaultOutputs(build)
                 /\ kbd_type' = makeKeyboard(build, KeyboardKindOf(DefaultOutputs(build)))
                 /\ mouse_type' = makeMouse(build, MouseKindOf(DefaultOutputs(build))) ]_vars

\* setup() found a record with a sound magic and a damaged CRC, and left a
\* record that reads back as the defaults.
C11_Witness ==
    /\ build.HID_DYNAMIC
    /\ pc = "loop"
    /\ boot_nv # <<>>
    /\ boot_nv[1] = MAGIC
    /\ ~CrcValid(boot_nv)
    /\ _readOutputs(nv) = DefaultOutputs(build)
    /\ _readOutputs(nv) # boot_nv[2]

(***************************************************************************)
(* Properties of the framers.                                              *)
(***************************************************************************)
\* C12: requests are served in the order in which they complete, on either
\* transport: the step that completes an 8-byte request on the serial line
\* dispatches it, and a request completed on SPI is dispatched before
\* another one can complete; every dispatch serves the request that
\* completed last, once, and emits its response, which an OK response builds
\* from the state the handler left.
C12_InOrder ==
    [][ /\ (served' # <<>> /\ ~build.CMD_SPI) =>
               /\ rx # <<>> /\ index = 7
               /\ served' = Append(buffer, Head(rx))
               /\ rx' = Tail(rx)
               /\ buffer' = <<>>
        /\ (~build.CMD_SPI /\ pc = "loop" /\ pc' = "loop" /\ rx # <<>>
              /\ rx' = Tail(rx) /\ index = 7) => served' # <<>>
        /\ (served' # <<>> /\ build.CMD_SPI) =>
               /\ spi_open # <<>>
               /\ served' = spi_open
               /\ spi_open' = <<>>
               /\ _spi_out[1] = 0
               /\ spi_data' = tx'
        /\ (isr' # <<>> /\ isr'.mode = "ingress" /\ _spi_in_index = 7
              /\ Len(_spi_in') = 8) => (spi_open = <<>> /\ spi_open' = _spi_in')
        /\ served' # <<>> =>
               /\ Len(tx') = 8
               /\ IsOk(tx') =>
                      tx' = Response(PONG_OK, build, kbd_type', mouse_type',
                                     usb_leds, usb_configured, aum_connected',
                                     reset_required') ]_vars

\* A MOUSE_BUTTON request that completed on SPI was dispatched, its handler
\* ran and its response waits for spiWrite.
C12_Witness ==
    /\ build.CMD_SPI
    /\ served = Frame(CMD_MOUSE_BUTTON, 136, 0, 0, 0)
    /\ calls # <<>>
    /\ IsOk(tx)
    /\ spi_data = tx
    /\ spi_step = 0
    /\ spi_open = <<>>

\* C16: under every interleaving of ISR(SPI_STC_vect) with spiWrite the
\* routine never sees a response that is staged in part: it takes its
\* egress branch only when spiWrite has made all its stores, and the byte it
\* loads into SPDR is the byte at that index of the response spiWrite was
\* given.
C16_NoPartialResponse ==
    [][ (isr' # <<>> /\ isr'.mode = "egress") =>
            /\ spi_step = 8
            /\ isr'.index = _spi_out_index
            /\ isr'.SPDR = spi_data[_spi_out_index + 1] ]_vars

\* The routine loaded the last byte of a response, the low CRC byte, and
\* closed the egress.
C16_Witness ==
    /\ isr # <<>>
    /\ isr.mode = "egress"
    /\ isr.index = 7
    /\ ~isr.wcol
    /\ isr.SPDR = spi_data[8]
    /\ isr.SPDR # 0
    /\ _spi_out[1] = 0

\* C15: the serial framer is permissive: every byte that loop() reads is
\* stored at the index whatever its value, byte 0 is not compared with
\* MAGIC and no byte is dropped; the byte read at index 7 completes a
\* request that is dispatched and answered once, after which the index is
\* 0; the index is in 0..7 between iterations.
C15_PermissiveFramer ==
    /\ [](index \in 0..7)
    /\ [][ (~build.CMD_SPI /\ pc = "loop" /\ pc' = "loop" /\ rx # <<>>
              /\ rx' # rx) =>
               /\ rx' = Tail(rx)
               /\ IF index = 7
                  THEN /\ served' = Append(buffer, Head(rx))
                       /\ Len(tx') = 8
                       /\ index' = 0
                  ELSE /\ buffer' = Append(buffer, Head(rx))
                       /\ index' = index + 1
                       /\ served' = <<>>
                       /\ tx' = <<>> ]_vars

\* Eight bytes of which the first is not MAGIC were taken as a request and
\* answered.
C15_Witness ==
    /\ ~build.CMD_SPI
    /\ served # <<>>
    /\ served[1] # MAGIC
    /\ Len(tx) = 8
    /\ index = 0

\* C14: once the serial framer holds a partial frame (index in 1..7) and
\* the idle time is over CMD_SERIAL_TIMEOUT, the next thing the framer does
\* is to answer TIMEOUT_ERROR and set the index to 0, so that the stale bytes
\* are never part of a later frame.  loop() reads the idle clock only in an
\* iteration that finds no byte available, so this fails for a byte that
\* arrives after the limit and before that iteration.
C14_StaleNeverKept ==
    [][ (~build.CMD_SPI /\ pc = "loop" /\ pc' = "loop" /\ index \in 1..7
           /\ elapsed > TimeoutTicks /\ buffer' # buffer) =>
               /\ buffer' = <<>>
               /\ served' = <<>>
               /\ tx' # <<>>
               /\ tx'[2] = RESP_TIMEOUT_ERROR ]_vars

\* What loop() does about timeouts: an iteration that finds no byte
\* available while the framer holds a partial frame and the idle time is
\* over CMD_SERIAL_TIMEOUT answers TIMEOUT_ERROR once, sets the index to 0
\* and runs no handler; no response is sent without a request in any other
\* case, so none with index 0; a byte that is available when the iteration
\* starts is stored after the stale bytes even if the idle time is over the
\* limit.
TimeoutPolled ==
    [][ /\ (~build.CMD_SPI /\ tx' # <<>> /\ served' = <<>>) =>
               /\ rx = <<>>
               /\ index \in 1..7
               /\ elapsed > TimeoutTicks
               /\ tx'[1] = MAGIC_RESP
               /\ tx'[2] = RESP_TIMEOUT_ERROR
               /\ CrcValid(tx')
               /\ index' = 0
               /\ calls' = <<>>
               /\ HandlerState' = HandlerState
        /\ (~build.CMD_SPI /\ pc = "loop" /\ pc' = "loop" /\ rx = <<>>
              /\ index \in 1..7 /\ elapsed > TimeoutTicks
              /\ buffer' # buffer) =>
               (tx' # <<>> /\ served' = <<>>)
        /\ (~build.CMD_SPI /\ pc = "loop" /\ pc' = "loop" /\ rx # <<>>
              /\ index \in 1..6 /\ elapsed > TimeoutTicks
              /\ buffer' # buffer) =>
               (buffer' = Append(buffer, Head(rx)) /\ tx' = <<>>) ]_vars

\* A truncated frame was left idle and answered TIMEOUT_ERROR.
TimeoutAnswered ==
    /\ ~build.CMD_SPI
    /\ tx # <<>>
    /\ served = <<>>
    /\ tx[2] = RESP_TIMEOUT_ERROR
    /\ index = 0
    /\ rx = <<>>

(***************************************************************************)
(* Properties of the status bytes.                                         *)
(***************************************************************************)
\* C17: while the keyboard is of kind DUMMY every OK response has
\* KEYBOARD_OFFLINE, CAPS, SCROLL and NUM at 0 and every response has no
\* keyboard kind in byte 2; while the mouse is of kind DUMMY every OK
\* response has MOUSE_OFFLINE at 0 and every response has no mouse kind in
\* byte 2.  (Byte 1 of an error response is its code, not flags.)
C17_DummyPassthrough ==
    tx # <<>> =>
        /\ kbd_type = "DUMMY" =>
               /\ BitAnd(tx[3], OUTPUTS1_KEYBOARD_MASK) = 0
               /\ IsOk(tx) =>
                      BitAnd(tx[2], PONG_KEYBOARD_OFFLINE + PONG_CAPS
                                      + PONG_SCROLL + PONG_NUM) = 0
        /\ mouse_type = "DUMMY" =>
               /\ BitAnd(tx[3], OUTPUTS1_MOUSE_MASK) = 0
               /\ IsOk(tx) => BitAnd(tx[2], PONG_MOUSE_OFFLINE) = 0

\* With the USB bus down, a dummy keyboard and a USB mouse, an OK response
\* reported the mouse offline and the keyboard not.
C17_Witness ==
    /\ kbd_type = "DUMMY"
    /\ mouse_type # "DUMMY"
    /\ ~usb_configured
    /\ tx # <<>>
    /\ IsOk(tx)
    /\ BitAnd(tx[2], PONG_KEYBOARD_OFFLINE) = 0
    /\ BitAnd(tx[2], PONG_MOUSE_OFFLINE) # 0
    /\ BitAnd(tx[3], OUTPUTS1_KEYBOARD_MASK) = 0

(***************************************************************************)
(* Properties of crc16.                                                    *)
(***************************************************************************)
\* C18: a frame made of a payload p and split16(crc16(p)) passes the check
\* of _handleRequest, and the same frame with any single bit of its 8 bytes
\* flipped fails it.
C18_CrcRoundTrip ==
    Len(crc_frame) = 8 =>
        ((crc16(crc_frame, 6) = merge8(crc_frame[7], crc_frame[8]))
            <=> crc_flip = -1)

\* The highest bit of byte 0 of a frame was flipped and the check failed.
C18_Witness ==
    /\ Len(crc_frame) = 8
    /\ crc_flip = 7
    /\ crc_frame[1] = 51 + 128
    /\ crc16(crc_frame, 6) # merge8(crc_frame[7], crc_frame[8])

(***************************************************************************)
(* Properties of two runs.                                                 *)
(***************************************************************************)
\* The response with the bits given cleared in byte 1.
WithoutBits(resp, bits) ==
    [resp EXCEPT ![2] = BitAnd(@, 255 - bits)]

\* C19 as the specification states it: two runs that boot from the same
\* stored record and receive the same requests send the same bytes, except
\* for the KEYBOARD_OFFLINE and MOUSE_OFFLINE bits of byte 1.  The statement
\* is read in its favour: the two CRC bytes, which cover byte 1, are left
\* out of the comparison.
C19_OfflineBitsOnly ==
    twin_resp # <<>> =>
        SubSeq(WithoutBits(twin_resp["a"],
                           PONG_KEYBOARD_OFFLINE + PONG_MOUSE_OFFLINE), 1, 6)
          = SubSeq(WithoutBits(twin_resp["b"],
                               PONG_KEYBOARD_OFFLINE + PONG_MOUSE_OFFLINE), 1, 6)

\* C19: two runs that boot from the same stored record and receive the same
\* requests send the same codes, and their responses are the same bytes
\* except, in an OK response, for the KEYBOARD_OFFLINE, MOUSE_OFFLINE, CAPS,
\* SCROLL and NUM bits of byte 1 and for the two CRC bytes, which cover
\* byte 1; the responses are the same bytes throughout when the two targets
\* show the same USB state and LED report.
C19_Determinism ==
    twin_resp # <<>> =>
        LET ra == twin_resp["a"]
            rb == twin_resp["b"]
        IN  /\ IsOk(ra) <=> IsOk(rb)
            /\ ~IsOk(ra) => ra = rb
            /\ SubSeq(WithoutBits(ra, DriverBits), 1, 6)
                 = SubSeq(WithoutBits(rb, DriverBits), 1, 6)
            /\ CrcValid(ra) /\ CrcValid(rb)
            /\ (twin["a"].leds = twin["b"].leds
                  /\ twin["a"].configured = twin["b"].configured) => ra = rb
            /\ twin["a"].st = twin["b"].st

\* The same PING was answered with CAPS in one run and without in the other,
\* both targets having configured the device.
C19_Witness ==
    /\ twin_resp # <<>>
    /\ IsOk(twin_resp["a"])
    /\ twin["a"].configured /\ twin["b"].configured
    /\ BitAnd(twin_resp["a"][2], PONG_CAPS) # 0
    /\ BitAnd(twin_resp["b"][2], PONG_CAPS) = 0
    /\ BitAnd(twin_resp["a"][2], PONG_KEYBOARD_OFFLINE + PONG_MOUSE_OFFLINE) = 0
    /\ BitAnd(twin_resp["b"][2], PONG_KEYBOARD_OFFLINE + PONG_MOUSE_OFFLINE) = 0

(***************************************************************************)
(* Properties of the PS/2 keyboard.                                        *)
(***************************************************************************)
\* The step was ph_ps2_kbd_receive(byte).
Received(op, byte) == Len(op) = 3 /\ op[1] = "receive" /\ op[2] = byte

\* What the specification has the keyboard send for a byte of the host.
Ps2Answer(byte) ==
    IF byte = 255 THEN <<250, 170>>
    ELSE IF byte = 238 THEN <<238>>
    ELSE IF byte = 242 THEN <<250, 171, 131>>
    ELSE <<250>>

\* C20 as the specification states it: for a byte of the host other than
\* 0xFE the bytes appended to the queue are FA AA for 0xFF, EE for 0xEE,
\* FA AB 83 for 0xF2 and one FA for every other byte.
C20_AppendedExactly ==
    [][ \A byte \in Ps2HostBytes \ {254} :
            Received(ps2_op', byte) => qbytes' = qbytes \o Ps2Answer(byte) ]_vars

\* C20: for a byte of the host, ph_ps2_kbd_receive passes to ph_ps2_kbd_send
\* FA AA for 0xFF, EE alone for 0xEE, FA AB 83 for 0xF2, nothing for 0xFE
\* and one FA for every other byte, 0xED, 0xF3, 0xF4, 0xF5 and 0xF6
\* included; of these bytes the queue takes, in order, as many as it has
\* free slots for, so that they are all appended when it has room for them.
C20_HostCommands ==
    [][ \A byte \in Ps2HostBytes :
            Received(ps2_op', byte) =>
                LET answer == IF byte = 254 THEN <<>> ELSE Ps2Answer(byte)
                    room   == queue_cap - Len(qbytes)
                IN  /\ ps2_sent' = answer
                    /\ qbytes' = qbytes \o
                           SubSeq(answer, 1, IF Len(answer) <= room
                                             THEN Len(answer) ELSE room) ]_vars

\* The identify command found the queue empty and left FA AB 83 in it.
C20_Witness ==
    /\ Received(ps2_op, 242)
    /\ ps2_sent = <<250, 171, 131>>
    /\ qbytes = <<250, 171, 131>>

\* CLEAR_HID in main.cpp: once the response to a CLEAR_HID with a sound CRC
\* is sent, kbd.clear() and mouse.clear() were called, in this order, and
\* no key is pressed on the keyboard driver.
ClearHidCalls ==
    (served # <<>> /\ CrcValid(served) /\ served[2] = CMD_CLEAR_HID) =>
        /\ IsOk(tx)
        /\ calls = << <<"kbd.clear">>, <<"mouse.clear">> >>
        /\ kbd_pressed = {}

\* C13: CLEAR_HID is a barrier whichever keyboard is active; for the PS/2
\* keyboard: once CLEAR_HID has called ph_ps2_send_clear, no key that an
\* earlier KEY command pressed is still down.  ph_ps2_send_clear queues no
\* break code, so this fails.
C13_ClearBarrier ==
    ps2_op = <<"clear">> => ps2_down = {}

\* C21: after the host sent 0xED the keyboard acknowledges with FA, and the
\* next byte m it receives is stored into kbd_leds and acknowledged with FA
\* as well.  ph_ps2_kbd_receive keeps nothing from one byte to the next and
\* nothing assigns ph_g_ps2_kbd_leds, so this fails.
C21_LedMask ==
    \A m \in Ps2HostBytes :
        (Received(ps2_op, m) /\ ps2_op[3] = 237) =>
            /\ ph_g_ps2_kbd_leds = m
            /\ ps2_sent = <<250>>

\* C28: after the host sent 0xF3 the next byte the keyboard receives is not
\* run as a command, whatever its value: it brings none of the answers to
\* reset, echo and identify.  ph_ps2_kbd_receive keeps nothing from one byte
\* to the next, so this fails.
C28_TypematicArgument ==
    \A m \in Ps2HostBytes :
        (Received(ps2_op, m) /\ ps2_op[3] = 243) =>
            ps2_sent \notin {<<250, 170>>, <<238>>, <<250, 171, 131>>}

\* The step was ph_ps2_kbd_send_key(key, state) with the PS/2 keyboard
\* active.
KeySent(op, key, state) == PH_O_IS_KBD_PS2 /\ op = <<"key", key, state>>

\* The step was ph_ps2_kbd_send_key with one of the keys, the PS/2 keyboard
\* active.
KeySentOf(op, keys) ==
    PH_O_IS_KBD_PS2 /\ Len(op) = 3 /\ op[1] = "key" /\ op[2] \in keys

\* The bytes of a sequence that a queue with the given free slots takes.
Taken(bytes, room) ==
    SubSeq(bytes, 1, IF Len(bytes) <= room THEN Len(bytes) ELSE room)

\* The usages below the table length that are prefixed with E0.
ExtendedKeys == {70} \cup (73 .. 82) \cup {84, 88, 101, 102}

\* E0 iff the key is extended, then F0 iff it is released, then the byte of
\* the table.
MakeBreak(key, state) ==
    (IF key \in ExtendedKeys THEN <<224>> ELSE <<>>)
    \o (IF ~state THEN <<240>> ELSE <<>>)
    \o <<ph_ps2_hid2ps2[key + 1]>>

\* C22 as the specification states it: for every usage below the table
\* length other than 0x48, pressed or released, sendKey appends E0 iff the
\* key is extended, F0 iff it is released, and the table byte to the queue.
C22_Appended ==
    [][ KeySentOf(ps2_op', (0 .. ph_ps2_maparray - 1) \ {72}) =>
            qbytes' = qbytes \o MakeBreak(ps2_op'[2], ps2_op'[3]) ]_vars

\* C22: for every usage below the table length other than 0x48, pressed or
\* released, ph_ps2_kbd_send_key passes to ph_ps2_kbd_send E0 iff the usage
\* is one of 0x46, 0x49..0x52, 0x54, 0x58, 0x65, 0x66, then F0 iff the key
\* is released, then the table byte, and nothing else: 1C and F0 1C for
\* 0x04, E0 70 and E0 F0 70 for 0x49.  Of these bytes the queue takes, in
\* order, as many as it has free slots for.
C22_MakeBreak ==
    [][ KeySentOf(ps2_op', (0 .. ph_ps2_maparray - 1) \ {72}) =>
            LET key   == ps2_op'[2]
                state == ps2_op'[3]
            IN  /\ ps2_sent' = MakeBreak(key, state)
                /\ qbytes' = qbytes \o Taken(ps2_sent', queue_cap - Len(qbytes))
                /\ key = 4 => ps2_sent' = IF state THEN <<28>> ELSE <<240, 28>>
                /\ key = 73 => ps2_sent' = IF state THEN <<224, 112>>
                                           ELSE <<224, 240, 112>> ]_vars

\* Insert was released and its three bytes are the last of the queue.
C22_Witness ==
    /\ KeySent(ps2_op, 73, FALSE)
    /\ Len(qbytes) >= 3
    /\ SubSeq(qbytes, Len(qbytes) - 2, Len(qbytes)) = <<224, 240, 112>>

\* The modifiers that are prefixed with E0: left GUI, right Ctrl, right Alt,
\* right GUI.
ExtendedModifiers == {227, 228, 230, 231}

Modifier(key, state) ==
    (IF key \in ExtendedModifiers THEN <<224>> ELSE <<>>)
    \o (IF ~state THEN <<240>> ELSE <<>>)
    \o <<ph_ps2_mod2ps2[key - 224 + 1]>>

\* C23 as the specification states it: for the usages 0xE0..0xE7 sendKey
\* appends E0 iff the usage is extended, F0 iff the key is released, and
\* the byte of the modifier table to the queue.
C23_Appended ==
    [][ KeySentOf(ps2_op', 224 .. 231) =>
            qbytes' = qbytes \o Modifier(ps2_op'[2], ps2_op'[3]) ]_vars

\* C23: for the usages 0xE0..0xE7 ph_ps2_kbd_send_key passes to
\* ph_ps2_kbd_send E0 iff the usage is one of 0xE3, 0xE4, 0xE6, 0xE7, then
\* F0 iff the key is released, then the byte of the modifier table: 12 for
\* a left Shift pressed and 59 for a right Shift pressed, without E0.  Of
\* these bytes the queue takes, in order, as many as it has free slots for.
C23_Modifiers ==
    [][ KeySentOf(ps2_op', 224 .. 231) =>
            LET key   == ps2_op'[2]
                state == ps2_op'[3]
            IN  /\ ps2_sent' = Modifier(key, state)
                /\ qbytes' = qbytes \o Taken(ps2_sent', queue_cap - Len(qbytes))
                /\ (key = 225 /\ state) => ps2_sent' = <<18>>
                /\ (key = 229 /\ state) => ps2_sent' = <<89>> ]_vars

\* A right Shift was pressed and 59 is the last byte of the queue, with no
\* E0 before it.
C23_Witness ==
    /\ KeySent(ps2_op, 229, TRUE)
    /\ qbytes # <<>>
    /\ qbytes[Len(qbytes)] = 89
    /\ \A i \in 1 .. Len(qbytes) : qbytes[i] # 224

\* The bytes of the Pause key.
PauseBytes == <<225, 20, 119, 225, 240, 20, 240, 119>>

\* C29 as the specification states it: pressing 0x48 appends E1 14 77 E1 F0
\* 14 F0 77 to the queue and releasing it appends nothing.
C29_Appended ==
    [][ KeySentOf(ps2_op', {72}) =>
            qbytes' = qbytes \o (IF ps2_op'[3] THEN PauseBytes ELSE <<>>) ]_vars

\* C29: for 0x48 pressed ph_ps2_kbd_send_key passes E1 14 77 E1 F0 14 F0 77
\* to ph_ps2_kbd_send, in this order, and the queue takes as many of them as
\* it has free slots for; for 0x48 released it passes nothing and the queue
\* is as it was.
C29_Pause ==
    [][ KeySentOf(ps2_op', {72}) =>
            LET state == ps2_op'[3]
            IN  /\ ps2_sent' = IF state THEN PauseBytes ELSE <<>>
                /\ qbytes' = qbytes \o Taken(ps2_sent', queue_cap - Len(qbytes))
                /\ ~state => qbytes' = qbytes ]_vars

\* 0x48 was pressed with the queue empty, which holds the eight bytes.
C29_Witness ==
    /\ KeySent(ps2_op, 72, TRUE)
    /\ qbytes = PauseBytes

\* C30: ph_ps2_kbd_send drops a byte when the queue is full and neither
\* removes nor reorders the bytes already queued: a call of ph_ps2_init,
\* ph_ps2_kbd_receive, ph_ps2_kbd_send_key or ph_ps2_send_clear leaves the
\* queue as it was, followed by as many of the bytes of the call, in order,
\* as the queue had free slots; with fewer free slots than bytes the queue
\* ends full, with a strict prefix of the bytes of the call.
C30_LossyTail ==
    [][ (ps2_op' # <<>> /\ ps2_op' # <<"task">>) =>
            LET room  == queue_cap - Len(qbytes)
                added == SubSeq(qbytes', Len(qbytes) + 1, Len(qbytes'))
            IN  /\ Len(qbytes') >= Len(qbytes)
                /\ SubSeq(qbytes', 1, Len(qbytes)) = qbytes
                /\ added = Taken(ps2_sent', room)
                /\ room < Len(ps2_sent') =>
                       /\ Len(qbytes') = queue_cap
                       /\ Len(added) < Len(ps2_sent') ]_vars

\* Insert was released with one free slot: the queue ends with E0, without
\* F0 and without the make code.
C30_Witness ==
    /\ KeySent(ps2_op, 73, FALSE)
    /\ ps2_sent = <<224, 240, 112>>
    /\ Len(qbytes) = queue_cap
    /\ qbytes[Len(qbytes)] = 224
    /\ qbytes[Len(qbytes) - 1] \notin {224, 240, 112}

(***************************************************************************)
(* Properties of ISR(SPI_STC_vect).                                        *)
(***************************************************************************)
\* C24: from the moment spiReady() returns true until spiWrite has stored
\* out[0], no invocation of the routine writes a byte of in[] or changes
\* in_index, whatever the byte received: it takes its ingress branch and
\* finds the index at 8.
C24_RequestStable ==
    [][ (isr' # <<>> /\ (spiReady \/ spi_step < 8)) =>
            /\ isr'.mode = "ingress"
            /\ _spi_in_index = 8
            /\ _spi_in' = _spi_in
            /\ _spi_out[1] = 0 ]_vars

\* The routine received a non-zero byte while spiWrite was storing the
\* response, and the request is the one the host sent.
C24_Witness ==
    /\ isr # <<>>
    /\ isr.in # 0
    /\ spi_step \in 1 .. 7
    /\ _spi_in = Frame(CMD_MOUSE_BUTTON, 136, 0, 0, 0)

\* C25: while out[0] is non-zero each invocation of the routine loads SPDR
\* with out[out_index] and advances out_index only when no write collision
\* is flagged, by one, so that the 8 bytes are offered in the order 0..7 and
\* none is skipped; the invocation that brings out_index to 8 sets
\* out_index = 0, in_index = 0 and out[0] = 0; no byte received during the
\* egress is stored into in[].
C25_Egress ==
    /\ [](_spi_out_index \in 0 .. 7)
    /\ [][ (isr' # <<>> /\ _spi_out[1] # 0) =>
               /\ isr'.mode = "egress"
               /\ isr'.SPDR = _spi_out[_spi_out_index + 1]
               /\ isr'.wcol => UNCHANGED <<_spi_out_index, _spi_in, _spi_out>>
               /\ (~isr'.wcol /\ _spi_out_index < 7) =>
                      /\ _spi_out_index' = _spi_out_index + 1
                      /\ UNCHANGED <<_spi_in, _spi_out>>
               /\ (~isr'.wcol /\ _spi_out_index = 7) =>
                      /\ _spi_out_index' = 0
                      /\ _spi_in_index' = 0
                      /\ _spi_out'[1] = 0
               /\ _spi_in' \in {_spi_in, <<>>} ]_vars

\* A write collision was flagged at index 3 while the host clocked a
\* non-zero byte: byte 3 is offered again.
C25_Witness ==
    /\ isr # <<>>
    /\ isr.mode = "egress"
    /\ isr.wcol
    /\ isr.in # 0
    /\ isr.index = 3
    /\ _spi_out_index = 3
    /\ _spi_out[1] # 0

\* C26: while out[0] is zero the routine clocks out 0; with in_index = 0 the
\* zero bytes before the first non-zero byte are skipped; from the first
\* non-zero byte on the next 8 bytes received, zero or not, are stored in
\* order into in[0..7]; with in_index = 8 the latch is cleared and the byte
\* received is not stored.
C26_Ingress ==
    /\ [](receiving <=> _spi_in_index \in 1 .. 7)
    /\ [][ (isr' # <<>> /\ _spi_out[1] = 0) =>
               /\ isr'.mode = "ingress"
               /\ isr'.SPDR = 0
               /\ UNCHANGED <<_spi_out, _spi_out_index>>
               /\ (_spi_in_index = 0 /\ isr'.in = 0) => _spi_in' = _spi_in
               /\ (_spi_in_index = 0 /\ isr'.in # 0) => _spi_in' = <<isr'.in>>
               /\ _spi_in_index \in 1 .. 7 => _spi_in' = Append(_spi_in, isr'.in)
               /\ _spi_in_index = 8 => (_spi_in' = _spi_in /\ ~receiving') ]_vars

\* A zero byte was received in the middle of a request and stored.
C26_Witness ==
    /\ isr # <<>>
    /\ isr.mode = "ingress"
    /\ isr.in = 0
    /\ isr.index = 3
    /\ _spi_in_index = 4
    /\ _spi_in[4] = 0
    /\ receiving

\* A request is complete in in[] and spiReady() holds.
SpiCompleted == build.CMD_SPI /\ pc = "loop" /\ spi_step = 8 /\ spiReady

\* spiWrite has stored the whole response, out[0] last.
SpiStaged == spi_step = 8 /\ _spi_out[1] # 0

\* The routine has loaded the last byte of the response and the framer is
\* back in ingress mode, with nothing stored.
SpiReleased ==
    /\ isr # <<>>
    /\ isr.mode = "egress"
    /\ isr.index = 7
    /\ ~isr.wcol
    /\ _spi_out[1] = 0
    /\ _spi_out_index = 0
    /\ _spi_in_index = 0

\* C27: with a main loop that keeps running, a host that keeps clocking
\* bytes and no write collision flagged for ever, every completed request
\* gets its response staged, and every staged response is emitted to its
\* last byte, which returns the framer to ingress mode with out[0] = 0,
\* out_index = 0 and in_index = 0.
C27_Handshake ==
    /\ SpiCompleted ~> SpiStaged
    /\ SpiStaged ~> SpiReleased

\* The response to a request is emitted and the framer is released, after a
\* write collision on the way.
C27_Witness ==
    /\ SpiReleased
    /\ spi_data # <<>>
    /\ spi_data[1] = MAGIC_RESP
    /\ isr.SPDR = spi_data[8]

====
